---------------------------- MODULE Spec2Model ----------------------------
(***************************************************************************)
(* Model of the statute-text parsing core of the repository               *)
(* (src/adminapi.py: NumberPredictor, SimpleArticleParser,                 *)
(* HierarchyExtractor, ArticleHierarchyMatcher, SmartParser,               *)
(* AdminAPI.clean_content) and of the bracket stripping of the PDF path    *)
(* (src/pdf_json.py).                                                      *)
(*                                                                         *)
(* A text is a sequence of characters; a character is a one-element        *)
(* string.  Hangul characters are written romanised, because a module      *)
(* is ASCII outside its comments:                                          *)
(*   "je" 제   "jo" 조   "jang" 장   "jeol" 절   "gwan" 관   "ui" 의        *)
(*   "hang" 항  "ho" 호   "sak" 삭   "mit" 및   "eul" 을   "reul" 를        *)
(*   "ga" 가   "na" 나   "da" 다   "han" 한  (한다 is a sentence ending)    *)
(* Offsets into a text are 0-based, as in Python: Ch(s, p) is s[p].        *)
(***************************************************************************)
EXTENDS Integers, Sequences, FiniteSets, TLC

VARIABLES
    text,               \* the input string of the operation under way
    pc,                 \* the stage of SmartParser.parse / the operation applied
    processed_text,     \* SmartParser.parse: processed_text
    all_articles,       \* SmartParser.parse: all_articles
    chapter_boundaries, \* SmartParser.parse: chapter_boundaries
    i,                  \* SmartParser.parse: index of the chapter being processed
    chapter_text,       \* SmartParser.parse: chapter_text of chapter i
    chapter_articles,   \* SmartParser.parse: chapter_articles of chapter i
    chapter_hierarchy,  \* SmartParser.parse: chapter_hierarchy of chapter i
    enhanced_articles,  \* SmartParser.parse: enhanced_articles
    result,             \* the value returned by the operation
    hierarchy_type,     \* the hierarchy_type argument of the operation under way
    article_position,   \* the article_position argument of the operation under way
    article_number,     \* the article_number argument of the operation under way
    hierarchy_structure, \* the hierarchy_structure argument of the operation under way
    chatbot_data,       \* _build_structure_hierarchy: the chatbot_data argument
    item,               \* _build_structure_hierarchy: the number of items walked
    current_jang,       \* _build_structure_hierarchy: current_jang
    current_jeol,       \* _build_structure_hierarchy: current_jeol
    current_gwan        \* _build_structure_hierarchy: current_gwan

\* the arguments an operation takes besides text
arguments ==
    <<hierarchy_type, article_position, article_number, hierarchy_structure>>

\* the argument and the local variables of _build_structure_hierarchy
walk == <<chatbot_data, item, current_jang, current_jeol, current_gwan>>

vars == <<text, pc, processed_text, all_articles, chapter_boundaries, i,
          chapter_text, chapter_articles, chapter_hierarchy,
          enhanced_articles, result, arguments, walk>>

-----------------------------------------------------------------------------
(* Characters and character classes of Python's re module                  *)

\* A run of PyIntMaxStrDigits + 1 decimal digits, kept as one element of a
\* text: \d+ consumes it like any digit, int() of a run that holds it raises
\* ValueError, and it is wider than every window the code cuts.
BIGDIGITS == "1{4301}"

Digits == {"0", "1", "2", "3", "4", "5", "6", "7", "8", "9"}

IsDigit(c) == c \in Digits \/ c = BIGDIGITS

\* \s
IsSpace(c) == c \in {" ", "\n", "\t"}

\* characters that are not \w: punctuation and white space
NonWord == {" ", "\n", "\t", "<", ">", "[", "]", "(", ")", "-", ".", ","}

\* \w (Hangul syllables, digits and letters are word characters)
IsWord(c) == c \notin NonWord

Max(a, b) == IF a >= b THEN a ELSE b

Min(a, b) == IF a <= b THEN a ELSE b

\* s[p], for 0 <= p < len(s); "" (no character) outside the string
Ch(s, p) == IF p >= 0 /\ p < Len(s) THEN s[p + 1] ELSE ""

\* s[a:b]
Slice(s, a, b) ==
    LET lo == Max(0, Min(a, Len(s)))
        hi == Max(0, Min(b, Len(s)))
    IN  IF lo >= hi THEN <<>> ELSE SubSeq(s, lo + 1, hi)

\* the end of the longest run of \s starting at p
RECURSIVE SkipSpaces(_, _)
SkipSpaces(s, p) == IF IsSpace(Ch(s, p)) THEN SkipSpaces(s, p + 1) ELSE p

\* the end of the longest run of \d starting at p
RECURSIVE SkipDigits(_, _)
SkipDigits(s, p) == IF IsDigit(Ch(s, p)) THEN SkipDigits(s, p + 1) ELSE p

\* s.find(c, p): the first offset >= p that holds c, or -1
RECURSIVE Find(_, _, _)
Find(s, c, p) ==
    IF p >= Len(s) THEN -1
    ELSE IF Ch(s, p) = c THEN p
    ELSE Find(s, c, p + 1)

\* s.strip()
RECURSIVE LStrip(_)
LStrip(s) == IF s # <<>> /\ IsSpace(Head(s)) THEN LStrip(Tail(s)) ELSE s

RECURSIVE RStrip(_)
RStrip(s) ==
    IF s # <<>> /\ IsSpace(s[Len(s)]) THEN RStrip(SubSeq(s, 1, Len(s) - 1)) ELSE s

Strip(s) == RStrip(LStrip(s))

\* s.startswith(w, p)
StartsWithAt(s, w, p) ==
    /\ p >= 0
    /\ p + Len(w) <= Len(s)
    /\ \A k \in 1..Len(w) : s[p + k] = w[k]

\* s.endswith(w)
EndsWith(s, w) == Len(w) <= Len(s) /\ StartsWithAt(s, w, Len(s) - Len(w))

\* w in s
Contains(s, w) == \E p \in 0..(Len(s) - Len(w)) : StartsWithAt(s, w, p)

\* the concatenation of a sequence of strings
RECURSIVE Concat(_)
Concat(ss) == IF ss = <<>> THEN <<>> ELSE Head(ss) \o Concat(Tail(ss))

-----------------------------------------------------------------------------
(* Bracket stripping                                                       *)

\* the lookahead 삭\s*제> at offset p
DeletionMarkerAt(s, p) ==
    /\ Ch(s, p) = "sak"
    /\ LET q == SkipSpaces(s, p + 1)
       IN  Ch(s, q) = "je" /\ Ch(s, q + 1) = ">"

\* re.sub(r'<(?!삭\s*제>)[^>]*>', '', text): [^>]* runs to the first '>',
\* over line breaks too
RECURSIVE SubAngle(_, _)
SubAngle(s, p) ==
    IF p >= Len(s) THEN <<>>
    ELSE IF Ch(s, p) = "<" /\ ~DeletionMarkerAt(s, p + 1) /\ Find(s, ">", p + 1) # -1
         THEN SubAngle(s, Find(s, ">", p + 1) + 1)
         ELSE <<Ch(s, p)>> \o SubAngle(s, p + 1)

preprocess_text(s) == SubAngle(s, 0)

\* the end of the lazy .*?c after offset p: the offset after the first c that
\* no line break precedes ('.' does not match a line break), or -1
RECURSIVE LazyDotTo(_, _, _)
LazyDotTo(s, c, p) ==
    IF p >= Len(s) THEN -1
    ELSE IF Ch(s, p) = c THEN p + 1
    ELSE IF Ch(s, p) = "\n" THEN -1
    ELSE LazyDotTo(s, c, p + 1)

\* the end of the match of <(?!삭\s*제>).*?>|\[.*?\] at offset p, or -1;
\* keep_marker is whether the pattern has the lookahead
BracketEnd(s, p, keep_marker) ==
    IF Ch(s, p) = "<" /\ ~(keep_marker /\ DeletionMarkerAt(s, p + 1))
    THEN LazyDotTo(s, ">", p + 1)
    ELSE IF Ch(s, p) = "[" THEN LazyDotTo(s, "]", p + 1)
    ELSE -1

\* re.sub(pattern, '', s) from offset p on; SubBracketsStep drops the match
\* that ends at e, or keeps the character at p when e is -1
RECURSIVE SubBrackets(_, _, _), SubBracketsStep(_, _, _, _)
SubBrackets(s, p, keep_marker) ==
    IF p >= Len(s) THEN <<>>
    ELSE SubBracketsStep(s, p, keep_marker, BracketEnd(s, p, keep_marker))

SubBracketsStep(s, p, keep_marker, e) ==
    IF e # -1 THEN SubBrackets(s, e, keep_marker)
    ELSE <<Ch(s, p)>> \o SubBrackets(s, p + 1, keep_marker)

\* AdminAPI.clean_content
clean_content(s) == Strip(SubBrackets(s, 0, TRUE))

\* pdf_json.remove_bracketed_text: re.sub(r"<.*?>|\[.*?\]", "", s)
remove_bracketed_text(s) == SubBrackets(s, 0, FALSE)

-----------------------------------------------------------------------------
(* Windows: the code cuts text[a:a+n] and text[max(0, b-n):b].  BIGDIGITS  *)
(* is wider than every n the code uses, so a window that reaches it ends   *)
(* inside the run: it holds digits of the run and nothing beyond it.       *)

RECURSIVE WindowAfter(_, _, _)
WindowAfter(s, a, n) ==
    IF n <= 0 \/ a >= Len(s) THEN <<>>
    ELSE IF Ch(s, a) = BIGDIGITS THEN <<"1">>
    ELSE <<Ch(s, a)>> \o WindowAfter(s, a + 1, n - 1)

RECURSIVE WindowBefore(_, _, _)
WindowBefore(s, b, n) ==
    IF n <= 0 \/ b <= 0 THEN <<>>
    ELSE IF Ch(s, b - 1) = BIGDIGITS THEN <<"1">>
    ELSE WindowBefore(s, b - 1, n - 1) \o <<Ch(s, b - 1)>>

\* w[q:] starts with the words of ws in turn, with \s* between them
RECURSIVE WordsAt(_, _, _)
WordsAt(w, q, ws) ==
    IF ws = <<>> THEN TRUE
    ELSE /\ StartsWithAt(w, Head(ws), q)
         /\ WordsAt(w, SkipSpaces(w, q + Len(Head(ws))), Tail(ws))

\* ^\s*w1\s*w2... matches the window w
WordsAfterSpaces(w, ws) == WordsAt(w, SkipSpaces(w, 0), ws)

\* re.sub(r'\s+', '', s)
RemoveWhitespace(s) == SelectSeq(s, LAMBDA c : ~IsSpace(c))

-----------------------------------------------------------------------------
(* The reference classifier of the article pass                            *)

AfterWindow == 25

\* list_patterns: 및 , 또는 내지 부터
list_patterns ==
    << <<"mit">>, <<",">>, <<"tto", "neun">>, <<"nae", "ji">>, <<"bu", "teo">> >>

\* connective_patterns: 의\s*규정  에\s*따라  에\s*따른  의\s*규정에  단서의
\* 에서  을  를  (each a sequence of words with \s* between them)
connective_patterns ==
    << << <<"ui">>, <<"gyu", "jeong">> >>,
       << <<"e">>, <<"tta", "ra">> >>,
       << <<"e">>, <<"tta", "reun">> >>,
       << <<"ui">>, <<"gyu", "jeong", "e">> >>,
       << <<"dan", "seo", "ui">> >>,
       << <<"e", "seo">> >>,
       << <<"eul">> >>,
       << <<"reul">> >> >>

\* list_patterns and connective_patterns applied to the window after a marker
ListOrConnective(after_text) ==
    \/ \E k \in 1..Len(list_patterns) :
          WordsAfterSpaces(after_text, <<list_patterns[k]>>)
    \/ \E k \in 1..Len(connective_patterns) :
          WordsAfterSpaces(after_text, connective_patterns[k])

\* 제\s*\d+\s*[항호] at offset p of w
ItemReferenceFrom(w, p) ==
    /\ Ch(w, p) = "je"
    /\ IsDigit(Ch(w, SkipSpaces(w, p + 1)))
    /\ Ch(w, SkipSpaces(w, SkipDigits(w, SkipSpaces(w, p + 1)))) \in {"hang", "ho"}

\* ^\s*제\s*\d+\s*[항호] matches the window w
ItemReferenceAt(w) == ItemReferenceFrom(w, SkipSpaces(w, 0))

\* lines 108-128: the three groups of patterns on the window after ')'
ArticleReferenceTail(after_text) ==
    ListOrConnective(after_text) \/ ItemReferenceAt(after_text)

\* lines 101-106: match_end is text.find(')', match_start)
ArticleReferenceAfter(s, match_end) ==
    IF match_end = -1 THEN FALSE
    ELSE ArticleReferenceTail(WindowAfter(s, match_end + 1, AfterWindow))

\* is_article_reference with the window cut from ')' on (text[match_end:...]),
\* not from the character after it
ArticleReferenceFromParen(s, match_start) ==
    /\ Find(s, ")", match_start) # -1
    /\ ArticleReferenceTail(WindowAfter(s, Find(s, ")", match_start), AfterWindow))

\* SimpleArticleParser.is_article_reference
is_article_reference(s, match_start) ==
    ArticleReferenceAfter(s, Find(s, ")", match_start))

\* sentence_endings: 한다 하여야 해야 된다 받는다 따른다 의한다 정한다 본다
\* 처리한다 관리한다
sentence_endings ==
    << <<"han", "da">>, <<"ha", "yeo", "ya">>, <<"hae", "ya">>, <<"doen", "da">>,
       <<"bat", "neun", "da">>, <<"tta", "reun", "da">>, <<"ui", "han", "da">>,
       <<"jeong", "han", "da">>, <<"bon", "da">>,
       <<"cheo", "ri", "han", "da">>, <<"gwan", "ri", "han", "da">> >>

\* is_sentence_title with 한다 as the only ending
EndsWithHanda(title) == title # <<>> /\ EndsWith(title, <<"han", "da">>)

\* SimpleArticleParser.is_sentence_title
is_sentence_title(title) ==
    /\ title # <<>>
    /\ \E k \in 1..Len(sentence_endings) : EndsWith(title, sentence_endings[k])

-----------------------------------------------------------------------------
(* Markers: 제\s*\d+(?:-\d+)?\s*K(?:의\d+)?                                 *)

\* the end of the greedy (?:-\d+)? at offset q
DashEnd(s, q) ==
    IF Ch(s, q) = "-" /\ IsDigit(Ch(s, q + 1)) THEN SkipDigits(s, q + 1) ELSE q

\* the end of K at offset q, or -1
KindEnd(s, q, kind) == IF Ch(s, q) = kind THEN q + 1 ELSE -1

\* the end of \d+(?:-\d+)?\s*K at offset q, or -1
NumberedKindEnd(s, q, kind) ==
    IF ~IsDigit(Ch(s, q)) THEN -1
    ELSE KindEnd(s, SkipSpaces(s, DashEnd(s, SkipDigits(s, q))), kind)

\* the end of 제\s*\d+(?:-\d+)?\s*K at offset p, or -1.  A shorter \d+ or a
\* skipped (?:-\d+)? leaves a digit or '-' where \s*K must match, so the
\* greedy path is the only one.
MarkerCoreEnd(s, p, kind) ==
    IF Ch(s, p) # "je" THEN -1
    ELSE NumberedKindEnd(s, SkipSpaces(s, p + 1), kind)

\* the end of the greedy (?:의\d+)? at offset p; -1 stays -1
SubSuffixEnd(s, p) ==
    IF p = -1 THEN -1
    ELSE IF Ch(s, p) = "ui" /\ IsDigit(Ch(s, p + 1)) THEN SkipDigits(s, p + 1)
    ELSE p

\* the end of \([^)]+\) at offset q, where r is s.find(')', q + 1); or -1
ParenEnd(s, q, r) == IF Ch(s, q) = "(" /\ r > q + 1 THEN r + 1 ELSE -1

\* the end of \s*\([^)]+\) at offset p, or -1; -1 stays -1
TitledEnd(s, p) ==
    IF p = -1 THEN -1
    ELSE ParenEnd(s, SkipSpaces(s, p), Find(s, ")", SkipSpaces(s, p) + 1))

NoMatch == [start |-> -1, number_end |-> -1, title_start |-> -1,
            title_end |-> -1, end |-> -1]

\* the match that starts at p, has group 1 end at g1 and ends at e
ArticleMatchOf(s, p, g1, e) ==
    IF e = -1 THEN NoMatch
    ELSE [start |-> p, number_end |-> g1,
          title_start |-> SkipSpaces(s, g1) + 1, title_end |-> e - 1, end |-> e]

ArticleMatchNumbered(s, p, g1) == ArticleMatchOf(s, p, g1, TitledEnd(s, g1))

\* the match of (제\s*\d+(?:-\d+)?\s*조(?:의\d+)?)\s*\(([^)]+)\) at offset p.
\* After 의\d+ the pattern needs \s*\( : giving digits back, or the whole
\* suffix, leaves a digit or 의 there, so the greedy path is the only one.
ArticleMatchAt(s, p) ==
    ArticleMatchNumbered(s, p, SubSuffixEnd(s, MarkerCoreEnd(s, p, "jo")))

\* re.finditer(pattern, text): the matches from offset p on, left to right,
\* each search resuming at the end of the match before
RECURSIVE ArticleMatches(_, _), ArticleMatchesStep(_, _, _)
ArticleMatches(s, p) ==
    IF p >= Len(s) THEN <<>> ELSE ArticleMatchesStep(s, p, ArticleMatchAt(s, p))

ArticleMatchesStep(s, p, m) ==
    IF m = NoMatch THEN ArticleMatches(s, p + 1)
    ELSE <<m>> \o ArticleMatches(s, m.end)

Group1(s, m) == Slice(s, m.start, m.number_end)

Group2(s, m) == Slice(s, m.title_start, m.title_end)

\* parse_articles_only, lines 161-172: the matches that are neither a
\* reference nor followed by a sentence-like title
valid_matches(s) ==
    SelectSeq(ArticleMatches(s, 0),
              LAMBDA m : /\ ~is_article_reference(s, m.start)
                         /\ ~is_sentence_title(Strip(Group2(s, m))))

\* the end of number_str\s*\([^)]+\) at offset p of c, or -1
HeadingEnd(c, p, number_str) ==
    IF StartsWithAt(c, number_str, p) THEN TitledEnd(c, p + Len(number_str)) ELSE -1

\* the offset of the first match of number_str\s*\([^)]+\) in c from p on, or -1
RECURSIVE HeadingSearch(_, _, _)
HeadingSearch(c, p, number_str) ==
    IF p >= Len(c) THEN -1
    ELSE IF HeadingEnd(c, p, number_str) # -1 THEN p
    ELSE HeadingSearch(c, p + 1, number_str)

\* c without the match of number_str\s*\([^)]+\) at offset p; c when p is -1
CutHeading(c, p, number_str) ==
    IF p = -1 THEN c
    ELSE Slice(c, 0, p) \o Slice(c, HeadingEnd(c, p, number_str), Len(c))

\* re.sub(f'{re.escape(number_str)}\\s*\\([^)]+\\)', '', content, count=1)
RemoveHeading(c, number_str) ==
    CutHeading(c, HeadingSearch(c, 0, number_str), number_str)

\* lines 180-191: the record made of the number, the title and the slice
RecordOf(number_str, title, slice) ==
    [number  |-> number_str,
     title   |-> title,
     content |-> Strip(RemoveHeading(Strip(slice), number_str))]

\* lines 177-178: the slice of the k-th valid match
ArticleSlice(s, vm, k) ==
    Slice(s, vm[k].start, IF k + 1 <= Len(vm) THEN vm[k + 1].start ELSE Len(s))

\* parse_articles_only, lines 176-191
ArticleRecords(s, vm) ==
    [k \in 1..Len(vm) |->
        RecordOf(RemoveWhitespace(Group1(s, vm[k])), Strip(Group2(s, vm[k])),
                 ArticleSlice(s, vm, k))]

\* parse_articles_only on the preprocessed text
ParseProcessed(s) == ArticleRecords(s, valid_matches(s))

\* SimpleArticleParser.parse_articles_only
parse_articles_only(raw) == ParseProcessed(preprocess_text(raw))

-----------------------------------------------------------------------------
(* NumberPredictor                                                         *)

None == -1

\* what int() gives for a digit string longer than sys.get_int_max_str_digits()
ValueError == -2

DigitValue(c) ==
    CASE c = "0" -> 0 [] c = "1" -> 1 [] c = "2" -> 2 [] c = "3" -> 3 [] c = "4" -> 4
      [] c = "5" -> 5 [] c = "6" -> 6 [] c = "7" -> 7 [] c = "8" -> 8 [] c = "9" -> 9

RECURSIVE Decimal(_)
Decimal(ds) ==
    IF ds = <<>> THEN 0
    ELSE 10 * Decimal(SubSeq(ds, 1, Len(ds) - 1)) + DigitValue(ds[Len(ds)])

\* int(ds) taken as the number of digits of ds
DigitCount(ds) == Len(ds)

\* int(ds) for a non-empty string of digits
PyInt(ds) ==
    IF \E k \in 1..Len(ds) : ds[k] = BIGDIGITS THEN ValueError ELSE Decimal(ds)

Kinds == {"jang", "jeol", "gwan", "jo"}

\* 제(\d+)-(\d+)([장절관조]) matches at the start of s, the first \d+ ending
\* at m1 and the second at d1
DashedShape(s, m1, d1) ==
    /\ Ch(s, 0) = "je" /\ m1 > 1 /\ Ch(s, m1) = "-"
    /\ d1 > m1 + 1 /\ Ch(s, d1) \in Kinds

\* 제(\d+)([장절관조]) matches at the start of s, the \d+ ending at m1
PlainShape(s, m1) == Ch(s, 0) = "je" /\ m1 > 1 /\ Ch(s, m1) \in Kinds

\* 의(\d+) matches after the kind character at offset k
SubShape(s, k) == Ch(s, k + 1) = "ui" /\ IsDigit(Ch(s, k + 2))

\* int of the group of 의(\d+) after the kind character at offset k
SubOf(s, k) == PyInt(Slice(s, k + 2, SkipDigits(s, k + 2)))

\* parse_number with the plain shape of line 39 tried before the others
PlainFirst(s, m1, d1) ==
    IF PlainShape(s, m1)
    THEN [type |-> Ch(s, m1), main |-> PyInt(Slice(s, 1, m1)),
          dash |-> None, sub |-> None]
    ELSE IF DashedShape(s, m1, d1)
    THEN [type |-> Ch(s, d1), main |-> PyInt(Slice(s, 1, m1)),
          dash |-> PyInt(Slice(s, m1 + 1, d1)), sub |-> None]
    ELSE [type |-> "", main |-> None, dash |-> None, sub |-> None]

\* the four shapes of parse_number in the order of the code: lines 15, 23,
\* 31 and 39, and the return None of line 46
ParsedShapes(s, m1, d1) ==
    IF DashedShape(s, m1, d1) /\ SubShape(s, d1)
    THEN [type |-> Ch(s, d1), main |-> PyInt(Slice(s, 1, m1)),
          dash |-> PyInt(Slice(s, m1 + 1, d1)), sub |-> SubOf(s, d1)]
    ELSE IF DashedShape(s, m1, d1)
    THEN [type |-> Ch(s, d1), main |-> PyInt(Slice(s, 1, m1)),
          dash |-> PyInt(Slice(s, m1 + 1, d1)), sub |-> None]
    ELSE IF PlainShape(s, m1) /\ SubShape(s, m1)
    THEN [type |-> Ch(s, m1), main |-> PyInt(Slice(s, 1, m1)),
          dash |-> None, sub |-> SubOf(s, m1)]
    ELSE IF PlainShape(s, m1)
    THEN [type |-> Ch(s, m1), main |-> PyInt(Slice(s, 1, m1)),
          dash |-> None, sub |-> None]
    ELSE [type |-> "", main |-> None, dash |-> None, sub |-> None]

\* NumberPredictor.parse_number: re.match at the start of number_str, no
\* white space allowed
parse_number(number_str) ==
    ParsedShapes(number_str, SkipDigits(number_str, 1),
                 SkipDigits(number_str, SkipDigits(number_str, 1) + 1))

\* parse_number returned None
Unparsed(parsed) == parsed.type = ""

\* one of the int() calls of a shape raised
ShapeRaises(parsed) == ValueError \in {parsed.main, parsed.dash, parsed.sub}

\* parse_number raises ValueError
parse_number_raises(number_str) == ShapeRaises(parse_number(number_str))

-----------------------------------------------------------------------------
(* HierarchyExtractor                                                      *)

MinNumber == 1

MaxNumber == 999

\* int of the \d+ that starts at offset q of s
NumberAt(s, q) == PyInt(Slice(s, q, SkipDigits(s, q)))

\* MarkerNumbers for the markers without dash part alone: 제\s*(\d+)\s*K
UndashedMarkerNumbers(s, kind, after_other) ==
    { NumberAt(s, SkipSpaces(s, p + 1)) :
        p \in { q \in 0..(Len(s) - 1) :
                  /\ Ch(s, q) = "je"
                  /\ IsDigit(Ch(s, SkipSpaces(s, q + 1)))
                  /\ Ch(s, SkipSpaces(s, SkipDigits(s, SkipSpaces(s, q + 1)))) = kind
                  /\ after_other => (q >= 1 /\ Ch(s, q - 1) # "je") } }

\* the numbers that pattern 1 of find_all_hierarchy_numbers captures:
\* 제\s*(\d+)(?:-\d+)?\s*K(?:의\d+)? ; with after_other, pattern 2, which
\* wants a character other than 제 before the marker: (?<=[^제])
MarkerNumbers(s, kind, after_other) ==
    { NumberAt(s, SkipSpaces(s, p + 1)) :
        p \in { q \in 0..(Len(s) - 1) :
                  /\ MarkerCoreEnd(s, q, kind) # -1
                  /\ after_other => (q >= 1 /\ Ch(s, q - 1) # "je") } }

\* the numbers that pattern 3 captures: \b(\d+)\s*K(?:의\d+)?
BareNumbers(s, kind) ==
    { NumberAt(s, p) :
        p \in { q \in 0..(Len(s) - 1) :
                  /\ IsDigit(Ch(s, q))
                  /\ (q = 0 \/ ~IsWord(Ch(s, q - 1)))
                  /\ Ch(s, SkipSpaces(s, SkipDigits(s, q))) = kind } }

Least(numbers) == CHOOSE n \in numbers : \A m \in numbers : n <= m

\* sorted(list(numbers))
RECURSIVE Sorted(_), SortedFrom(_, _)
Sorted(numbers) ==
    IF numbers = {} THEN <<>> ELSE SortedFrom(numbers, Least(numbers))

SortedFrom(numbers, least) == <<least>> \o Sorted(numbers \ {least})

\* find_all_hierarchy_numbers without the range test of line 222
NumbersOfAnyRange(s, kind) ==
    Sorted({ n \in MarkerNumbers(s, kind, FALSE) \cup MarkerNumbers(s, kind, TRUE)
                   \cup BareNumbers(s, kind) : n # ValueError })

\* HierarchyExtractor.find_all_hierarchy_numbers; a ValueError of int() is
\* caught and the match skipped
find_all_hierarchy_numbers(s, kind) ==
    Sorted({ n \in MarkerNumbers(s, kind, FALSE) \cup MarkerNumbers(s, kind, TRUE)
                   \cup BareNumbers(s, kind) :
               n # ValueError /\ MinNumber <= n /\ n <= MaxNumber })

\* the end of \d+\s*K at offset q, or -1
PlainNumberedEnd(s, q, kind) ==
    IF ~IsDigit(Ch(s, q)) THEN -1
    ELSE KindEnd(s, SkipSpaces(s, SkipDigits(s, q)), kind)

\* the end of 제\s*\d+\s*K at offset p, or -1
PlainMarkerEnd(s, p, kind) ==
    IF Ch(s, p) # "je" THEN -1 ELSE PlainNumberedEnd(s, SkipSpaces(s, p + 1), kind)

\* subsection_patterns of is_hierarchy_reference at offset p of the window
LowerMarkerFrom(after_text, p, kind) ==
    \/ kind = "jang" /\ PlainMarkerEnd(after_text, p, "jeol") # -1
    \/ kind \in {"jang", "jeol"} /\ PlainMarkerEnd(after_text, p, "gwan") # -1
    \/ kind \in {"jang", "jeol", "gwan"} /\ MarkerCoreEnd(after_text, p, "jo") # -1

\* subsection_patterns of is_hierarchy_reference for each hierarchy_type
LowerMarkerAt(after_text, kind) ==
    LowerMarkerFrom(after_text, SkipSpaces(after_text, 0), kind)

\* lines 243-282: the three groups of patterns on the window after the marker
HierarchyReferenceTail(after_text, kind) ==
    ListOrConnective(after_text) \/ LowerMarkerAt(after_text, kind)

\* lines 236-243: match_end is the end of 제\s*\d+\s*K at match_start
HierarchyReferenceAfter(s, match_end, kind) ==
    IF match_end = -1 THEN FALSE
    ELSE HierarchyReferenceTail(WindowAfter(s, match_end, AfterWindow), kind)

\* HierarchyExtractor.is_hierarchy_reference
is_hierarchy_reference(s, match_start, kind) ==
    HierarchyReferenceAfter(s, PlainMarkerEnd(s, match_start, kind), kind)

\* sentence_endings of HierarchyExtractor.is_sentence_title (lines 292-295)
hierarchy_sentence_endings ==
    << <<"han", "da">>, <<"ha", "yeo", "ya">>, <<"hae", "ya">>, <<"doen", "da">>,
       <<"bat", "neun", "da">>, <<"tta", "reun", "da">>, <<"ui", "han", "da">>,
       <<"jeong", "han", "da">>, <<"bon", "da">>,
       <<"cheo", "ri", "han", "da">>, <<"gwan", "ri", "han", "da">> >>

\* HierarchyExtractor.is_sentence_title
hierarchy_is_sentence_title(title) ==
    /\ title # <<>>
    /\ \E k \in 1..Len(hierarchy_sentence_endings) :
          EndsWith(title, hierarchy_sentence_endings[k])

TitleWindow == 30

\* the lookahead (?=제\d|$) at offset e; $ also matches before a final line break
TitleStop(s, e) ==
    \/ Ch(s, e) = "je" /\ IsDigit(Ch(s, e + 1))
    \/ e = Len(s)
    \/ e = Len(s) - 1 /\ Ch(s, e) = "\n"

\* the end of the lazy (.{1,30}?)(?=제\d|$) that starts at ts, tried from
\* offset e on, or -1: the first stop after 1 to 30 characters, none of them
\* a line break
RECURSIVE LazyTitleEnd(_, _, _)
LazyTitleEnd(s, ts, e) ==
    IF e > Len(s) \/ e - ts > TitleWindow THEN -1
    ELSE IF Ch(s, e - 1) \in {"\n", BIGDIGITS} THEN -1
    ELSE IF TitleStop(s, e) THEN e
    ELSE LazyTitleEnd(s, ts, e + 1)

\* \s*(.{1,30}?)(?=제\d|$) after a number that ends at g1: the greedy \s* is
\* tried longest first (ts from hi down to g1). The start of the title, or -1.
RECURSIVE TitleStartFrom(_, _, _)
TitleStartFrom(s, g1, ts) ==
    IF ts < g1 THEN -1
    ELSE IF LazyTitleEnd(s, ts, ts + 1) # -1 THEN ts
    ELSE TitleStartFrom(s, g1, ts - 1)

\* the end of group 1, (제...K(?:의\d+)?), the greedy suffix tried first, then
\* with digits given back (g1 from hi down to core + 2), then without suffix
RECURSIVE NumberEndFrom(_, _, _)
NumberEndFrom(s, core, g1) ==
    IF g1 < core + 2
    THEN IF TitleStartFrom(s, core, SkipSpaces(s, core)) # -1 THEN core ELSE -1
    ELSE IF TitleStartFrom(s, g1, SkipSpaces(s, g1)) # -1 THEN g1
    ELSE NumberEndFrom(s, core, g1 - 1)

\* the match that starts at p, with group 1 ending at g1 and group 2 from ts to te
BoundaryMatchOf(p, g1, ts, te) ==
    [start |-> p, number_end |-> g1, title_start |-> ts, title_end |-> te,
     end |-> te]

BoundaryMatchTitled(s, p, g1, ts) ==
    BoundaryMatchOf(p, g1, ts, LazyTitleEnd(s, ts, ts + 1))

BoundaryMatchNumbered(s, p, g1) ==
    IF g1 = -1 THEN NoMatch
    ELSE BoundaryMatchTitled(s, p, g1, TitleStartFrom(s, g1, SkipSpaces(s, g1)))

BoundaryMatchCore(s, p, core) ==
    IF core = -1 THEN NoMatch
    ELSE BoundaryMatchNumbered(s, p, NumberEndFrom(s, core, SubSuffixEnd(s, core)))

\* the match of (제\s*\d+(?:-\d+)?\s*K(?:의\d+)?)\s*(.{1,30}?)(?=제\d|$) at p
BoundaryMatchAt(s, p, kind) == BoundaryMatchCore(s, p, MarkerCoreEnd(s, p, kind))

\* re.finditer(pattern, text) of find_hierarchy_boundaries, from offset p on
RECURSIVE BoundaryMatches(_, _, _), BoundaryMatchesStep(_, _, _, _)
BoundaryMatches(s, p, kind) ==
    IF p >= Len(s) THEN <<>>
    ELSE BoundaryMatchesStep(s, p, kind, BoundaryMatchAt(s, p, kind))

BoundaryMatchesStep(s, p, kind, m) ==
    IF m = NoMatch THEN BoundaryMatches(s, p + 1, kind)
    ELSE <<m>> \o BoundaryMatches(s, m.end, kind)

\* re.sub(r'\s+', ' ', s)
RECURSIVE CollapseSpaces(_)
CollapseSpaces(s) ==
    IF s = <<>> THEN <<>>
    ELSE IF IsSpace(Head(s))
         THEN <<" ">> \o CollapseSpaces(LStrip(s))
         ELSE <<Head(s)>> \o CollapseSpaces(Tail(s))

\* find_hierarchy_boundaries, lines 318-322: the title of a match
CleanTitle(raw_title) ==
    Strip(SelectSeq(CollapseSpaces(Strip(raw_title)),
                    LAMBDA c : IsWord(c) \/ IsSpace(c)))

\* (match.start(), number_str, title) of a match
BoundaryNode(s, m) ==
    [pos |-> m.start, number |-> RemoveWhitespace(Group1(s, m)),
     title |-> CleanTitle(Group2(s, m))]

\* lines 316-332 applied to the matches ms
ValidBoundaries(s, kind, ms) ==
    SelectSeq([k \in 1..Len(ms) |-> BoundaryNode(s, ms[k])],
              LAMBDA n : /\ ~is_hierarchy_reference(s, n.pos, kind)
                         /\ ~hierarchy_is_sentence_title(n.title))

\* find_hierarchy_boundaries, lines 310-332: the matches that pass both filters
BoundaryCandidates(s, kind) == ValidBoundaries(s, kind, BoundaryMatches(s, 0, kind))

\* the key of the sort of line 357
MainOf(n) == parse_number(n.number).main

\* list.sort(key=main): a stable insertion sort
RECURSIVE InsertByMain(_, _)
InsertByMain(sorted, n) ==
    IF sorted = <<>> THEN <<n>>
    ELSE IF MainOf(sorted[Len(sorted)]) <= MainOf(n)
         THEN Append(sorted, n)
         ELSE Append(InsertByMain(SubSeq(sorted, 1, Len(sorted) - 1), n),
                     sorted[Len(sorted)])

RECURSIVE SortByMain(_)
SortByMain(ns) ==
    IF ns = <<>> THEN <<>>
    ELSE InsertByMain(SortByMain(SubSeq(ns, 1, Len(ns) - 1)), ns[Len(ns)])

\* lines 350-354 without the test of the existing numbers
KeepParsed(matches, existing_numbers) ==
    SelectSeq(matches, LAMBDA n : ~Unparsed(parse_number(n.number)))

\* lines 350-354: the candidates whose main number is an existing number
KeepExisting(matches, existing_numbers) ==
    SelectSeq(matches,
        LAMBDA n : /\ ~Unparsed(parse_number(n.number))
                   /\ \E k \in 1..Len(existing_numbers) :
                         existing_numbers[k] = MainOf(n))

\* HierarchyExtractor._filter_by_existing_numbers
filter_by_existing_numbers(matches, kind, s) ==
    IF matches = <<>> THEN <<>>
    ELSE SortByMain(KeepExisting(matches, find_all_hierarchy_numbers(s, kind)))

\* _filter_by_existing_numbers raises: parse_number of a candidate (line 352)
filter_by_existing_numbers_raises(matches) ==
    \E k \in 1..Len(matches) : parse_number_raises(matches[k].number)

\* find_hierarchy_boundaries on the preprocessed text
BoundariesOfProcessed(s, kind) ==
    filter_by_existing_numbers(BoundaryCandidates(s, kind), kind, s)

\* HierarchyExtractor.find_hierarchy_boundaries
find_hierarchy_boundaries(raw, kind) ==
    BoundariesOfProcessed(preprocess_text(raw), kind)

\* find_hierarchy_boundaries raises ValueError
find_hierarchy_boundaries_raises(raw, kind) ==
    filter_by_existing_numbers_raises(BoundaryCandidates(preprocess_text(raw), kind))

-----------------------------------------------------------------------------
(* SmartParser                                                             *)

BeforeWindow == 100

\* reference_indicators: 준용 따라 규정 의하여 및 또는 내지 참조 같은 동일 해당
reference_indicators ==
    << <<"jun", "yong">>, <<"tta", "ra">>, <<"gyu", "jeong">>, <<"ui", "ha", "yeo">>,
       <<"mit">>, <<"tto", "neun">>, <<"nae", "ji">>, <<"cham", "jo">>,
       <<"gat", "eun">>, <<"dong", "il">>, <<"hae", "dang">> >>

\* the end of \(title\) at offset q of s, or -1
ExactTitleEnd(s, q, title) ==
    IF StartsWithAt(s, <<"(">> \o title \o <<")">>, q) THEN q + Len(title) + 2
    ELSE -1

\* the end of number\s*\(title\) at offset p of s, or -1
ExactHeadingEnd(s, p, number, title) ==
    IF StartsWithAt(s, number, p)
    THEN ExactTitleEnd(s, SkipSpaces(s, p + Len(number)), title)
    ELSE -1

\* the end of the heading pattern at offset p: number\s*\([^)]+\) with
\* any_title, number\s*\(title\) without
PatternEnd(s, p, number, title, any_title) ==
    IF any_title THEN HeadingEnd(s, p, number)
    ELSE ExactHeadingEnd(s, p, number, title)

\* the starts of re.finditer(pattern, s) from offset p on
RECURSIVE HeadingStarts(_, _, _, _, _), HeadingStartsStep(_, _, _, _, _, _)
HeadingStarts(s, p, number, title, any_title) ==
    IF p >= Len(s) THEN <<>>
    ELSE HeadingStartsStep(s, p, number, title, any_title,
                           PatternEnd(s, p, number, title, any_title))

HeadingStartsStep(s, p, number, title, any_title, e) ==
    IF e = -1 THEN HeadingStarts(s, p + 1, number, title, any_title)
    ELSE <<p>> \o HeadingStarts(s, e, number, title, any_title)

\* before_text.split('\n')[-1]
RECURSIVE LastLine(_)
LastLine(s) ==
    IF s = <<>> \/ s[Len(s)] = "\n" THEN <<>>
    ELSE Append(LastLine(SubSeq(s, 1, Len(s) - 1)), s[Len(s)])

\* lines 680-686: an indicator occurs in before_text
IsReferenceBefore(before_text) ==
    \E k \in 1..Len(reference_indicators) :
        Contains(before_text, reference_indicators[k])

\* re.search(r'\d+\.\s*$', before_line), tail being before_line without its
\* trailing white space
NumberedItemEnd(tail) ==
    EndsWith(tail, <<".">>) /\ IsDigit(Ch(tail, Len(tail) - 2))

\* lines 692-695 on before_line.strip()
StartPattern(stripped, before_line) ==
    \/ stripped = <<>>
    \/ EndsWith(stripped, <<".">>)
    \/ EndsWith(stripped, <<">">>)
    \/ NumberedItemEnd(RStrip(before_line))

\* lines 688-695 on before_line
LineStartPattern(before_line) == StartPattern(Strip(before_line), before_line)

\* lines 671-695 on before_text
HeadingAfter(before_text) ==
    ~IsReferenceBefore(before_text) /\ LineStartPattern(LastLine(before_text))

\* _find_first_real_article_position, lines 668-695: the occurrence at
\* match_start passes the test of the loop
LooksLikeHeading(s, match_start) ==
    HeadingAfter(WindowBefore(s, match_start, BeforeWindow))

\* the first offset of matches that passes the test of the loop, or the
\* first offset of all (line 697)
RECURSIVE FirstHeading(_, _, _)
FirstHeading(s, matches, first) ==
    IF matches = <<>> THEN first
    ELSE IF LooksLikeHeading(s, Head(matches)) THEN Head(matches)
    ELSE FirstHeading(s, Tail(matches), first)

\* lines 664-697
FirstRealOf(s, matches) ==
    IF matches = <<>> THEN None ELSE FirstHeading(s, matches, matches[1])

\* lines 655-662: the exact matches, or the matches by number when none
ExactOrByNumber(s, number, title, exact) ==
    IF exact # <<>> THEN exact ELSE HeadingStarts(s, 0, number, title, TRUE)

\* SmartParser._find_first_real_article_position
find_first_real_article_position(s, article) ==
    FirstRealOf(s, ExactOrByNumber(s, article.number, article.title,
                    HeadingStarts(s, 0, article.number, article.title, FALSE)))

\* line 643
InChapter(position, chapter_start, chapter_end) ==
    /\ position # None
    /\ chapter_start <= position
    /\ position < chapter_end

\* SmartParser._find_articles_in_chapter
find_articles_in_chapter(articles, full_text, chapter_start, chapter_end) ==
    SelectSeq(articles,
        LAMBDA a : InChapter(find_first_real_article_position(full_text, a),
                             chapter_start, chapter_end))

\* the nodes that _extract_chapter_hierarchy makes of boundaries bs
NodesOf(bs, chapter_start_pos) ==
    [k \in 1..Len(bs) |->
        [number |-> bs[k].number, title |-> bs[k].title,
         position |-> chapter_start_pos + bs[k].pos,
         relative_position |-> bs[k].pos]]

\* the nodes of one kind of _extract_chapter_hierarchy
LocalNodes(chapter_txt, chapter_start_pos, kind) ==
    NodesOf(find_hierarchy_boundaries(chapter_txt, kind), chapter_start_pos)

\* SmartParser._extract_chapter_hierarchy
extract_chapter_hierarchy(chapter_txt, chapter_start_pos) ==
    [jeol |-> LocalNodes(chapter_txt, chapter_start_pos, "jeol"),
     gwan |-> LocalNodes(chapter_txt, chapter_start_pos, "gwan")]

\* _extract_chapter_hierarchy raises ValueError
extract_chapter_hierarchy_raises(chapter_txt) ==
    \/ find_hierarchy_boundaries_raises(chapter_txt, "jeol")
    \/ find_hierarchy_boundaries_raises(chapter_txt, "gwan")

\* reference_patterns of the fallback match, lines 750-754:
\* 및 , 또는 내지 / 의\s*규정 에\s*따라 에\s*따른 을 를
FallbackReference(after_text) ==
    \/ \E k \in 1..4 : WordsAfterSpaces(after_text, <<list_patterns[k]>>)
    \/ \E k \in {1, 2, 3, 7, 8} :
          WordsAfterSpaces(after_text, connective_patterns[k])

\* lines 743-762 for a fallback match whose ')' is at match_end
RealAfter(chapter_txt, match_end) ==
    /\ match_end # -1
    /\ ~FallbackReference(WindowAfter(chapter_txt, match_end + 1, AfterWindow))

\* the first fallback match that is not a reference, or None
RECURSIVE FirstReal(_, _)
FirstReal(chapter_txt, fallback_matches) ==
    IF fallback_matches = <<>> THEN None
    ELSE IF RealAfter(chapter_txt, Find(chapter_txt, ")", Head(fallback_matches)))
         THEN Head(fallback_matches)
    ELSE FirstReal(chapter_txt, Tail(fallback_matches))

\* lines 733-762, exact being the matches of the exact pattern
LocalPositionOf(chapter_txt, number, title, exact) ==
    IF exact # <<>> THEN exact[1]
    ELSE FirstReal(chapter_txt, HeadingStarts(chapter_txt, 0, number, title, TRUE))

\* _apply_hierarchy_to_articles, lines 733-762: the offset of the article in
\* the chapter text, or None
LocalArticlePosition(chapter_txt, article) ==
    LocalPositionOf(chapter_txt, article.number, article.title,
        HeadingStarts(chapter_txt, 0, article.number, article.title, FALSE))

\* the loop of lines 772-776: the last section at or before the article, the
\* scan stopping at the first section after it; 0 when there is none
RECURSIVE BelongingSection(_, _, _, _)
BelongingSection(sections, k, pos, found) ==
    IF k > Len(sections) THEN found
    ELSE IF sections[k].relative_position <= pos
         THEN BelongingSection(sections, k + 1, pos, k)
         ELSE found

\* the indices of the sections that have the number of current_section
SameNumber(current_section, sections) ==
    { k \in 1..Len(sections) : sections[k].number = current_section.number }

\* the index after the least index of same; 0 when there is none
NextAfterFirst(same, n) ==
    IF same = {} \/ Least(same) = n THEN 0 ELSE Least(same) + 1

\* SmartParser._find_next_section: the index of the section after the first
\* one that has the number of the current section; 0 when there is none
find_next_section(current_section, sections) ==
    NextAfterFirst(SameNumber(current_section, sections), Len(sections))

\* lines 783-790 for subsection k, search_start and next section index next
SubsectionFits(hierarchy, k, pos, search_start, next) ==
    /\ hierarchy.gwan[k].relative_position >= search_start
    /\ hierarchy.gwan[k].relative_position <= pos
    /\ ~(next # 0 /\ hierarchy.gwan[k].relative_position
                        >= hierarchy.jeol[next].relative_position)

\* the greatest element of a set of indices; 0 when it is empty
Last(good) == IF good = {} THEN 0 ELSE CHOOSE k \in good : \A j \in good : j <= k

\* the loop of lines 782-792: the last subsection that fits; 0 when none
BelongingSubsection(hierarchy, section, pos) ==
    Last({ k \in 1..Len(hierarchy.gwan) :
             SubsectionFits(hierarchy, k, pos,
                 IF section = 0 THEN 0 ELSE hierarchy.jeol[section].relative_position,
                 IF section = 0 THEN 0
                 ELSE find_next_section(hierarchy.jeol[section], hierarchy.jeol)) })

\* ", ".join(parts)
RECURSIVE Join(_)
Join(parts) ==
    IF parts = <<>> THEN <<>>
    ELSE IF Len(parts) = 1 THEN parts[1]
    ELSE parts[1] \o <<",", " ">> \o Join(Tail(parts))

\* the title parts with the title of the article put first
OriginalTitleFirst(article, chapter_title, hierarchy, sec, sub) ==
    <<article.title, chapter_title>>
    \o (IF sec # 0 THEN <<hierarchy.jeol[sec].title>> ELSE <<>>)
    \o (IF sub # 0 THEN <<hierarchy.gwan[sub].title>> ELSE <<>>)

\* lines 795-802: the title parts, sec and sub being the indices of the
\* belonging section and subsection (0 for none)
TitleParts(article, chapter_title, hierarchy, sec, sub) ==
    <<chapter_title>>
    \o (IF sec # 0 THEN <<hierarchy.jeol[sec].title>> ELSE <<>>)
    \o (IF sub # 0 THEN <<hierarchy.gwan[sub].title>> ELSE <<>>)
    \o <<article.title>>

\* lines 768-802 for an article at offset pos of the chapter text
TitleInSection(article, chapter_title, hierarchy, pos, sec) ==
    Join(TitleParts(article, chapter_title, hierarchy, sec,
                    BelongingSubsection(hierarchy, sec, pos)))

\* lines 764-802
TitleAt(article, chapter_title, hierarchy, pos) ==
    IF pos = None THEN Join(<<chapter_title, article.title>>)
    ELSE TitleInSection(article, chapter_title, hierarchy, pos,
                        BelongingSection(hierarchy.jeol, 1, pos, 0))

\* _apply_hierarchy_to_articles: the title of one article
EnhancedTitle(article, chapter_txt, chapter_title, hierarchy) ==
    TitleAt(article, chapter_title, hierarchy,
            LocalArticlePosition(chapter_txt, article))

\* SmartParser._apply_hierarchy_to_articles
apply_hierarchy_to_articles(articles, chapter_txt, chapter_title, hierarchy) ==
    [k \in 1..Len(articles) |->
        [number  |-> articles[k].number,
         title   |-> EnhancedTitle(articles[k], chapter_txt, chapter_title, hierarchy),
         content |-> articles[k].content]]

-----------------------------------------------------------------------------
(* pdf_json: the PDF conversion path, from the extracted text on           *)

\* text.splitlines() from offset p on; '\n' is the line break of the texts
RECURSIVE Lines(_, _), LinesStep(_, _, _)
Lines(s, p) ==
    IF p >= Len(s) THEN <<>> ELSE LinesStep(s, p, Find(s, "\n", p))

LinesStep(s, p, e) ==
    IF e = -1 THEN <<Slice(s, p, Len(s))>>
    ELSE <<Slice(s, p, e)>> \o Lines(s, e + 1)

splitlines(s) == Lines(s, 0)

\* the end of 제\d+(?:-\d+)?조 at the start of line, or -1
PdfCoreEnd(line) ==
    IF Ch(line, 0) = "je" /\ IsDigit(Ch(line, 1))
    THEN KindEnd(line, DashEnd(line, SkipDigits(line, 1)), "jo")
    ELSE -1

\* the end of group 1 of 조문_패턴, (제\d+(?:-\d+)?조(?:의\d+)?), or -1
PdfNumberEnd(line) == SubSuffixEnd(line, PdfCoreEnd(line))

\* the end of \((.*?)\) at offset q, r being line.find(')', q + 1); or -1
PdfTitleEnd(line, q, r) == IF Ch(line, q) = "(" /\ r # -1 THEN r + 1 ELSE -1

PdfHeadingEndAt(line, g1) ==
    IF g1 = -1 THEN -1 ELSE PdfTitleEnd(line, g1, Find(line, ")", g1 + 1))

\* the end of 조문_패턴.match(line), or -1
PdfHeadingEnd(line) == PdfHeadingEndAt(line, PdfNumberEnd(line))

\* s.replace(w, "") for a non-empty w
RECURSIVE Remove(_, _)
Remove(s, w) ==
    IF s = <<>> THEN <<>>
    ELSE IF StartsWithAt(s, w, 0) THEN Remove(SubSeq(s, Len(w) + 1, Len(s)), w)
    ELSE <<Head(s)>> \o Remove(Tail(s), w)

\* lines 59-68: the record of a line whose stripped form matches, group 1
\* ending at g1 and the match at e
PdfRecord(line, stripped, g1, e) ==
    [number  |-> Slice(stripped, 0, g1),
     title   |-> Slice(stripped, g1 + 1, e - 1),
     content |-> Strip(Remove(line, Slice(stripped, 0, e)))]

\* lines 56-71 for one line, e being the end of the match on its stripped form
ParseLine(records, line, stripped, e) ==
    IF e # -1
    THEN Append(records, PdfRecord(line, stripped, PdfNumberEnd(stripped), e))
    ELSE IF records # <<>>
    THEN [records EXCEPT ![Len(records)].content = @ \o <<" ">> \o stripped]
    ELSE records

\* the loop of lines 54-71 over the first n lines
RECURSIVE ParseLines(_, _)
ParseLines(lines, n) ==
    IF n = 0 THEN <<>>
    ELSE ParseLine(ParseLines(lines, n - 1), lines[n], Strip(lines[n]),
                   PdfHeadingEnd(Strip(lines[n])))

ParseAllLines(lines) == ParseLines(lines, Len(lines))

\* pdf_json.parse_text_to_json
parse_text_to_json(s) == ParseAllLines(splitlines(s))

\* 제\d+(절|장|관) matches at offset p of c
StructureAt(c, p) ==
    /\ Ch(c, p) = "je"
    /\ IsDigit(Ch(c, p + 1))
    /\ Ch(c, SkipDigits(c, p + 1)) \in {"jeol", "jang", "gwan"}

\* the start of 구조_패턴.search(c) from offset p on, or -1
RECURSIVE StructureSearch(_, _)
StructureSearch(c, p) ==
    IF p >= Len(c) THEN -1
    ELSE IF StructureAt(c, p) THEN p
    ELSE StructureSearch(c, p + 1)

\* lines 94-97: the content before the first structure marker, at offset pos
RefineContent(c, pos) == IF pos = -1 THEN c ELSE Strip(Slice(c, 0, pos))

\* pdf_json.refine_articles
refine_articles(records) ==
    [k \in 1..Len(records) |->
        [records[k] EXCEPT !.content = RefineContent(@, StructureSearch(@, 0))]]

\* convert_pdf_to_json, step 4 (lines 144-146)
StripBrackets(records) ==
    [k \in 1..Len(records) |->
        [records[k] EXCEPT !.content = remove_bracketed_text(@)]]

\* pdf_json.convert_pdf_to_json on the text that extract_text_from_pdf returns
convert_pdf_to_json(s) ==
    IF s = <<>> THEN <<>>
    ELSE StripBrackets(refine_articles(parse_text_to_json(s)))

-----------------------------------------------------------------------------
(* Input texts: concatenations of at most n segments of a set of segments  *)

Texts(segments, n) ==
    { Concat(ss) : ss \in UNION { [1..k -> segments] : k \in 0..n } }

MaxSegs == 4

\* 제1장가  제2장나  제1조(가)  제2조(나)
BaseSegments ==
    { <<"je", "1", "jang", "ga">>, <<"je", "2", "jang", "na">>,
      <<"je", "1", "jo", "(", "ga", ")">>, <<"je", "2", "jo", "(", "na", ")">> }

\* BaseSegments and  제<4301 digits>장다  제<4301 digits>절다
Segments ==
    BaseSegments \cup
    { <<"je", BIGDIGITS, "jang", "da">>, <<"je", BIGDIGITS, "jeol", "da">> }

MaxLongSegs == 5

\* the texts of Segments up to MaxSegs segments and the texts of BaseSegments
\* up to MaxLongSegs segments
LongTexts == Texts(Segments, MaxSegs) \cup Texts(BaseSegments, MaxLongSegs)

MaxCleanSegs == 4

\* <  >  [  ]  가  line break  <삭제>  <삭 제>
CleanSegments ==
    { <<"<">>, <<">">>, <<"[">>, <<"]">>, <<"ga">>, <<"\n">>,
      <<"<", "sak", "je", ">">>, <<"<", "sak", " ", "je", ">">> }

MaxArticleSegs == 4

\* 제1조(가)  제 1조(가)  제1조  '의 규정'  및  나  제2조(한다)  제3항
ArticleSegments ==
    { <<"je", "1", "jo", "(", "ga", ")">>, <<"je", " ", "1", "jo", "(", "ga", ")">>,
      <<"je", "1", "jo">>, <<"ui", " ", "gyu", "jeong">>, <<"mit">>, <<"na">>,
      <<"je", "2", "jo", "(", "han", "da", ")">>, <<"je", "3", "hang">> }

MaxPdfSegs == 4

\* 제1조(가)  <삭제>  나  line break  제2장  [다]  space
PdfSegments ==
    { <<"je", "1", "jo", "(", "ga", ")">>, <<"<", "sak", "je", ">">>, <<"na">>,
      <<"\n">>, <<"je", "2", "jang">>, <<"[", "da", "]">>, <<" ">> }

-----------------
(* SmartParser.parse, stage by stage                                       *)

\* _build_structure_hierarchy is not under way
NoWalk ==
    /\ chatbot_data = <<>>
    /\ item = 0
    /\ current_jang = <<>>
    /\ current_jeol = <<>>
    /\ current_gwan = <<>>

\* SmartParser.parse is not under way
NoParse ==
    /\ processed_text = <<>>
    /\ all_articles = <<>>
    /\ chapter_boundaries = <<>>
    /\ i = 0
    /\ chapter_text = <<>>
    /\ chapter_articles = <<>>
    /\ chapter_hierarchy = [jeol |-> <<>>, gwan |-> <<>>]
    /\ enhanced_articles = <<>>
    /\ result = <<>>

Idle == NoWalk /\ NoParse

\* the operation takes the text alone
NoArguments ==
    /\ hierarchy_type = ""
    /\ article_position = 0
    /\ article_number = <<>>
    /\ hierarchy_structure = [jang |-> <<>>, jeol |-> <<>>, gwan |-> <<>>, jo |-> <<>>]

\* lines 589-592: preprocess once, then the first pass over the whole text
ExtractArticles ==
    /\ pc = "Unparsed"
    /\ processed_text' = preprocess_text(text)
    /\ all_articles' = parse_articles_only(text)
    /\ pc' = "ArticlesExtracted"
    /\ UNCHANGED <<text, arguments, walk, chapter_boundaries, i, chapter_text, chapter_articles,
                   chapter_hierarchy, enhanced_articles, result>>

\* line 596: the chapter boundaries
BuildSkeleton ==
    /\ pc = "ArticlesExtracted"
    /\ ~find_hierarchy_boundaries_raises(text, "jang")
    /\ chapter_boundaries' = find_hierarchy_boundaries(text, "jang")
    /\ pc' = "HierarchySkeletonBuilt"
    /\ UNCHANGED <<text, arguments, walk, processed_text, all_articles, i, chapter_text,
                   chapter_articles, chapter_hierarchy, enhanced_articles, result>>

\* line 596: parse_number raises inside _filter_by_existing_numbers and
\* nothing in parse catches it
RaiseInSkeleton ==
    /\ pc = "ArticlesExtracted"
    /\ find_hierarchy_boundaries_raises(text, "jang")
    /\ pc' = "Raised"
    /\ UNCHANGED <<text, arguments, walk, processed_text, all_articles, chapter_boundaries, i,
                   chapter_text, chapter_articles, chapter_hierarchy,
                   enhanced_articles, result>>

\* ReturnFlat returning enhanced_articles, the list of the chapter loop,
\* instead of all_articles
ReturnEnhanced ==
    /\ pc = "HierarchySkeletonBuilt"
    /\ chapter_boundaries = <<>>
    /\ result' = enhanced_articles
    /\ pc' = "NoChapters"
    /\ UNCHANGED <<text, arguments, walk, processed_text, all_articles, chapter_boundaries, i,
                   chapter_text, chapter_articles, chapter_hierarchy,
                   enhanced_articles>>

\* lines 599-601: no chapter, the flat list is returned
ReturnFlat ==
    /\ pc = "HierarchySkeletonBuilt"
    /\ chapter_boundaries = <<>>
    /\ result' = all_articles
    /\ pc' = "NoChapters"
    /\ UNCHANGED <<text, arguments, walk, processed_text, all_articles, chapter_boundaries, i,
                   chapter_text, chapter_articles, chapter_hierarchy,
                   enhanced_articles>>

\* the end of the span of chapter k (1-based): the start of the next
\* boundary of the list, or the end of the text
ChapterEnd(boundaries, k, full_text) ==
    IF k + 1 <= Len(boundaries) THEN boundaries[k + 1].pos ELSE Len(full_text)

\* lines 606-612: the text of the next chapter of the list
CarveSpan ==
    /\ pc \in {"HierarchySkeletonBuilt", "TitlesComposed"}
    /\ i < Len(chapter_boundaries)
    /\ i' = i + 1
    /\ chapter_text' = Slice(processed_text, chapter_boundaries[i + 1].pos,
                             ChapterEnd(chapter_boundaries, i + 1, processed_text))
    /\ pc' = "SpanCarved"
    /\ UNCHANGED <<text, arguments, walk, processed_text, all_articles, chapter_boundaries,
                   chapter_articles, chapter_hierarchy, enhanced_articles, result>>

\* lines 617-618
AssignArticles ==
    /\ pc = "SpanCarved"
    /\ chapter_articles' =
           find_articles_in_chapter(all_articles, processed_text,
               chapter_boundaries[i].pos,
               ChapterEnd(chapter_boundaries, i, processed_text))
    /\ pc' = "ArticlesAssigned"
    /\ UNCHANGED <<text, arguments, walk, processed_text, all_articles, chapter_boundaries, i,
                   chapter_text, chapter_hierarchy, enhanced_articles, result>>

\* line 621
ResolveLocalHierarchy ==
    /\ pc = "ArticlesAssigned"
    /\ ~extract_chapter_hierarchy_raises(chapter_text)
    /\ chapter_hierarchy' =
           extract_chapter_hierarchy(chapter_text, chapter_boundaries[i].pos)
    /\ pc' = "LocalHierarchyResolved"
    /\ UNCHANGED <<text, arguments, walk, processed_text, all_articles, chapter_boundaries, i,
                   chapter_text, chapter_articles, enhanced_articles, result>>

\* line 621: parse_number raises inside _extract_chapter_hierarchy
RaiseInChapter ==
    /\ pc = "ArticlesAssigned"
    /\ extract_chapter_hierarchy_raises(chapter_text)
    /\ pc' = "Raised"
    /\ UNCHANGED <<text, arguments, walk, processed_text, all_articles, chapter_boundaries, i,
                   chapter_text, chapter_articles, chapter_hierarchy,
                   enhanced_articles, result>>

\* lines 624-627
ComposeTitles ==
    /\ pc = "LocalHierarchyResolved"
    /\ enhanced_articles' = enhanced_articles \o
           apply_hierarchy_to_articles(chapter_articles, chapter_text,
               chapter_boundaries[i].title, chapter_hierarchy)
    /\ pc' = "TitlesComposed"
    /\ UNCHANGED <<text, arguments, walk, processed_text, all_articles, chapter_boundaries, i,
                   chapter_text, chapter_articles, chapter_hierarchy, result>>

\* line 633
Finish ==
    /\ pc = "TitlesComposed"
    /\ i = Len(chapter_boundaries)
    /\ result' = enhanced_articles
    /\ pc' = "Done"
    /\ UNCHANGED <<text, arguments, walk, processed_text, all_articles, chapter_boundaries, i,
                   chapter_text, chapter_articles, chapter_hierarchy,
                   enhanced_articles>>

Next ==
    \/ ExtractArticles
    \/ BuildSkeleton
    \/ RaiseInSkeleton
    \/ ReturnFlat
    \/ CarveSpan
    \/ AssignArticles
    \/ ResolveLocalHierarchy
    \/ RaiseInChapter
    \/ ComposeTitles
    \/ Finish

Init ==
    /\ text \in Texts(Segments, MaxSegs)
    /\ pc = "Unparsed"
    /\ Idle
    /\ NoArguments

\* SmartParser.parse on a text of Segments
Spec == Init /\ [][Next]_vars

InitLong ==
    /\ text \in LongTexts
    /\ pc = "Unparsed"
    /\ Idle
    /\ NoArguments

\* SmartParser.parse on a text of LongTexts
SpecLong == InitLong /\ [][Next]_vars

-----------------------------------------------------------------------------
(* The operations on one string, each applied to an input string           *)

\* the variables of SmartParser.parse stay as constructed
ParseIdle ==
    UNCHANGED <<text, arguments, walk, processed_text, all_articles, chapter_boundaries, i,
                chapter_text, chapter_articles, chapter_hierarchy,
                enhanced_articles>>

\* SimpleArticleParser.preprocess_text(text)
PreprocessText ==
    /\ pc = "Input"
    /\ result' = preprocess_text(text)
    /\ pc' = "PreprocessReturned"
    /\ ParseIdle

\* AdminAPI.clean_content(text)
CleanContent ==
    /\ pc = "Input"
    /\ result' = clean_content(text)
    /\ pc' = "CleanReturned"
    /\ ParseIdle

NextClean == PreprocessText \/ CleanContent

InitClean ==
    /\ text \in Texts(CleanSegments, MaxCleanSegs)
    /\ pc = "Input"
    /\ Idle
    /\ NoArguments

\* the two bracket-stripping operations of adminapi on a text of CleanSegments
SpecClean == InitClean /\ [][NextClean]_vars

\* SimpleArticleParser.parse_articles_only(text)
ParseArticlesOnly ==
    /\ pc = "Input"
    /\ result' = parse_articles_only(text)
    /\ pc' = "ArticlesReturned"
    /\ ParseIdle

NextArticles == ParseArticlesOnly

InitArticles ==
    /\ text \in Texts(ArticleSegments, MaxArticleSegs)
    /\ pc = "Input"
    /\ Idle
    /\ NoArguments

\* parse_articles_only on a text of ArticleSegments
SpecArticles == InitArticles /\ [][NextArticles]_vars

\* pdf_json.convert_pdf_to_json, text being the text extracted from the file
ConvertPdf ==
    /\ pc = "Input"
    /\ result' = convert_pdf_to_json(text)
    /\ pc' = "PdfConverted"
    /\ ParseIdle

NextPdf == ConvertPdf

InitPdf ==
    /\ text \in Texts(PdfSegments, MaxPdfSegs)
    /\ pc = "Input"
    /\ Idle
    /\ NoArguments

\* convert_pdf_to_json on a text of PdfSegments
SpecPdf == InitPdf /\ [][NextPdf]_vars

-----------------------------------------------------------------------------
(* Properties                                                              *)

\* parse has returned
Returned == {"NoChapters", "Done"}

\* two records of the same article: parse rewrites the title only
SameArticle(a, b) == a.number = b.number /\ a.content = b.content

\* C1: parse never drops an extracted article: when parse has returned, every
\* record of the first pass has a record in the result with its number and
\* its content.
C1_NoArticleDropped ==
    pc \in Returned =>
        \A k \in 1..Len(all_articles) :
            \E j \in 1..Len(result) : SameArticle(result[j], all_articles[k])

\* C2: when find_hierarchy_boundaries finds no chapter in the text, parse
\* returns exactly the list of parse_articles_only: the same records in the
\* same order, numbers, titles and contents unchanged.
C2_NoChapterReturnsFlatList ==
    (pc \in Returned /\ find_hierarchy_boundaries(text, "jang") = <<>>)
        => result = parse_articles_only(text)

\* parse returned by the no-chapters exit with two articles or more
C2_FlatListReturned ==
    pc = "NoChapters" /\ chapter_boundaries = <<>> /\ Len(result) >= 2

\* the content that the k-th heading of s, one of the matches vm, is to get:
\* the text between the end of the heading and the start of the next one
ContentAfterHeading(s, vm, k) ==
    Strip(Slice(s, vm[k].end,
                IF k + 1 <= Len(vm) THEN vm[k + 1].start ELSE Len(s)))

HeadingsRemoved(s, vm) ==
    /\ Len(result) = Len(vm)
    /\ \A k \in 1..Len(vm) : result[k].content = ContentAfterHeading(s, vm, k)

\* C3: the content of every record of parse_articles_only is its slice
\* without the heading at the start of the slice (marker and parenthesised
\* title), also when the marker is written with white space.
C3_ContentExcludesHeading ==
    pc = "ArticlesReturned" =>
        HeadingsRemoved(preprocess_text(text), valid_matches(preprocess_text(text)))

\* the titled marker m of s is a citation: what follows its closing
\* parenthesis starts with an enumeration word, a connective, or 제N항 / 제N호
CitedAfterParen(s, m) ==
    ArticleReferenceTail(WindowAfter(s, m.title_end + 1, AfterWindow))

\* the titled markers of s that are neither cited nor titled with a sentence
HeadingMatches(s) ==
    SelectSeq(ArticleMatches(s, 0),
              LAMBDA m : /\ ~CitedAfterParen(s, m)
                         /\ ~is_sentence_title(Strip(Group2(s, m))))

NumbersOf(s, ms) == [k \in 1..Len(ms) |-> RemoveWhitespace(Group1(s, ms[k]))]

RecordNumbers(records) == [k \in 1..Len(records) |-> records[k].number]

\* a marker 제N조 of s at offset p that no parenthesised title follows
BareMentionAt(s, p) ==
    MarkerCoreEnd(s, p, "jo") # -1 /\ ArticleMatchAt(s, p) = NoMatch

\* C4: parse_articles_only emits one record for each titled marker that is
\* not a citation, in order, and none for a cited titled marker or for a
\* marker without a parenthesised title.
C4_CitationsYieldNoRecord ==
    pc = "ArticlesReturned" =>
        RecordNumbers(result) =
            NumbersOf(preprocess_text(text), HeadingMatches(preprocess_text(text)))

\* a text with a heading, a cited titled marker and a marker without title
\* gave exactly one record
C4_CitedArticleParsedOnce ==
    /\ pc = "ArticlesReturned"
    /\ Len(result) = 1
    /\ \E k \in 1..Len(ArticleMatches(text, 0)) :
           CitedAfterParen(text, ArticleMatches(text, 0)[k])
    /\ \E p \in 0..(Len(text) - 1) : BareMentionAt(text, p)

\* the deletion marker <삭\s*제> starts at offset p of s
MarkerAt(s, p) == Ch(s, p) = "<" /\ DeletionMarkerAt(s, p + 1)

\* the number of deletion markers in s
MarkerCount(s) == Cardinality({ p \in 0..(Len(s) - 1) : MarkerAt(s, p) })

\* C5: preprocess_text and clean_content keep every deletion marker of their
\* input: the result holds at least as many as the input.
C5_DeletionMarkersKept ==
    pc \in {"PreprocessReturned", "CleanReturned"} =>
        MarkerCount(result) >= MarkerCount(text)

MarkersKeptFrom(refined) ==
    /\ Len(result) = Len(refined)
    /\ \A k \in 1..Len(refined) :
           MarkerCount(result[k].content) >= MarkerCount(refined[k].content)

\* C6: convert_pdf_to_json keeps the deletion markers of every article's
\* content: the content of each output record holds at least as many as the
\* content that step 4 was given.
C6_PdfKeepsDeletionMarker ==
    (pc = "PdfConverted" /\ text # <<>>) =>
        MarkersKeptFrom(refine_articles(parse_text_to_json(text)))

\* s holds a span [...], or a span <...> that is not a deletion marker
HasBracketSpan(s) ==
    \E p \in 1..Len(s) : \E q \in (p + 1)..Len(s) :
        \/ s[p] = "[" /\ s[q] = "]"
        \/ s[p] = "<" /\ ~DeletionMarkerAt(s, p) /\ s[q] = ">"

\* C7: the result of clean_content holds no span [...] and no span <...>
\* other than the deletion marker, whatever the spans of the input hold.
C7_NoBracketSpanLeft == pc = "CleanReturned" => ~HasBracketSpan(result)

\* the records records[j..] are records of all at indices that never decrease,
\* the first of them at index from or later
RECURSIVE InOrderFrom(_, _, _, _)
InOrderFrom(records, all, j, from) ==
    IF j > Len(records) THEN TRUE
    ELSE \E k \in from..Len(all) :
            /\ SameArticle(records[j], all[k])
            /\ \A h \in from..(k - 1) : ~SameArticle(records[j], all[h])
            /\ InOrderFrom(records, all, j + 1, k)

\* C8: the records that parse returns are in the order of the records of
\* parse_articles_only, also when the result is assembled chapter by chapter.
C8_DocumentOrderKept ==
    pc \in Returned => InOrderFrom(result, all_articles, 1, 1)

\* C9: on a text without a marker 제N조(title), parse_articles_only returns the
\* empty list and parse returns an empty result: neither raises.
C9_NoMarkerEmptyResult ==
    ArticleMatches(preprocess_text(text), 0) = <<>> =>
        /\ pc # "Raised"
        /\ (pc # "Unparsed" => all_articles = <<>>)
        /\ (pc \in Returned => result = <<>>)

\* C10: parse ends in a normal return, the no-chapters exit or Done: no stage
\* raises, so parse is never left by an exception.
C10_NoStageRaises == pc # "Raised"

-----------------------------------------------------------------------------
(* The operations of HierarchyExtractor on a text and a hierarchy_type     *)

HierarchyTypes == {"jang", "jeol", "gwan"}

MaxHierarchySegs == 3

\* 제1K가  제3K나  제1-2K  제3K의2  2K  제1000K  제<4301 digits>K다  제2K  및
\* 제3절, K being the hierarchy_type
HierarchySegments(kind) ==
    { <<"je", "1", kind, "ga">>, <<"je", "3", kind, "na">>,
      <<"je", "1", "-", "2", kind>>, <<"je", "3", kind, "ui", "2">>,
      <<"2", kind>>, <<"je", "1", "0", "0", "0", kind>>,
      <<"je", BIGDIGITS, kind, "da">>, <<"je", "2", kind>>, <<"mit">>,
      <<"je", "3", "jeol">> }

\* HierarchyExtractor.find_all_hierarchy_numbers(text, hierarchy_type)
FindAllHierarchyNumbers ==
    /\ pc = "Input"
    /\ result' = find_all_hierarchy_numbers(text, hierarchy_type)
    /\ pc' = "NumbersReturned"
    /\ ParseIdle

\* HierarchyExtractor.find_hierarchy_boundaries(text, hierarchy_type)
FindHierarchyBoundaries ==
    /\ pc = "Input"
    /\ ~find_hierarchy_boundaries_raises(text, hierarchy_type)
    /\ result' = find_hierarchy_boundaries(text, hierarchy_type)
    /\ pc' = "BoundariesReturned"
    /\ ParseIdle

\* find_hierarchy_boundaries is left by the ValueError of line 352
RaiseInBoundaries ==
    /\ pc = "Input"
    /\ find_hierarchy_boundaries_raises(text, hierarchy_type)
    /\ pc' = "Raised"
    /\ UNCHANGED result
    /\ ParseIdle

NextHierarchy == FindAllHierarchyNumbers \/ FindHierarchyBoundaries \/ RaiseInBoundaries

InitHierarchy ==
    /\ hierarchy_type \in HierarchyTypes
    /\ text \in Texts(HierarchySegments(hierarchy_type), MaxHierarchySegs)
    /\ pc = "Input"
    /\ Idle
    /\ article_position = 0
    /\ article_number = <<>>
    /\ hierarchy_structure = [jang |-> <<>>, jeol |-> <<>>, gwan |-> <<>>, jo |-> <<>>]

\* the two operations on a text of HierarchySegments
SpecHierarchy == InitHierarchy /\ [][NextHierarchy]_vars

\* 제N<kind> stands at offset q of s, N a string of digits of value 1..999
PlainOccurrence(s, q, kind) ==
    /\ Ch(s, q) = "je"
    /\ IsDigit(Ch(s, q + 1))
    /\ Ch(s, SkipDigits(s, q + 1)) = kind
    /\ NumberAt(s, q + 1) \in MinNumber..MaxNumber

\* C11: the list find_all_hierarchy_numbers returns is strictly ascending,
\* each of its elements lies in 1..999, and it holds the number of every
\* 제N<kind> of the text with N in 1..999.
C11_NumbersSortedUniqueComplete ==
    pc = "NumbersReturned" =>
        /\ \A j, k \in 1..Len(result) : j < k => result[j] < result[k]
        /\ \A k \in 1..Len(result) : result[k] \in MinNumber..MaxNumber
        /\ \A q \in 0..(Len(text) - 1) :
               PlainOccurrence(text, q, hierarchy_type) =>
                   \E k \in 1..Len(result) : result[k] = NumberAt(text, q + 1)

\* 제1K, 제3K and 제3K again give <<1, 3>>
C11_RepeatedNumberOnce ==
    /\ pc = "NumbersReturned"
    /\ result = <<1, 3>>
    /\ Cardinality({ q \in 0..(Len(text) - 1) :
                       /\ PlainOccurrence(text, q, hierarchy_type)
                       /\ NumberAt(text, q + 1) = 3 }) = 2

-----------------------------------------------------------------------------
(* The two copies of is_sentence_title on a title                          *)

MaxTitleSegs == 3

\* the eleven endings, and 총칙 ("chong" 총, "chik" 칙), 한, 다, 야
TitleSegments ==
    { sentence_endings[k] : k \in 1..Len(sentence_endings) } \cup
    { <<"chong", "chik">>, <<"han">>, <<"da">>, <<"ya">> }

\* SimpleArticleParser.is_sentence_title(text)
ArticleIsSentenceTitle ==
    /\ pc = "Input"
    /\ result' = is_sentence_title(text)
    /\ pc' = "ArticleTitleJudged"
    /\ ParseIdle

\* HierarchyExtractor.is_sentence_title(text)
HierarchyIsSentenceTitle ==
    /\ pc = "Input"
    /\ result' = hierarchy_is_sentence_title(text)
    /\ pc' = "HierarchyTitleJudged"
    /\ ParseIdle

NextTitles == ArticleIsSentenceTitle \/ HierarchyIsSentenceTitle

InitTitles ==
    /\ text \in Texts(TitleSegments, MaxTitleSegs)
    /\ pc = "Input"
    /\ Idle
    /\ NoArguments

\* the two copies of is_sentence_title on a title of TitleSegments
SpecTitles == InitTitles /\ [][NextTitles]_vars

\* the title ends with the characters e
EndsIn(title, e) ==
    /\ Len(title) >= Len(e)
    /\ SubSeq(title, Len(title) - Len(e) + 1, Len(title)) = e

\* the title is not empty and ends with 한다, 하여야, 해야, 된다, 받는다, 따른다,
\* 의한다, 정한다, 본다, 처리한다 or 관리한다
SentenceLike(title) ==
    /\ Len(title) > 0
    /\ \/ EndsIn(title, <<"han", "da">>)
       \/ EndsIn(title, <<"ha", "yeo", "ya">>)
       \/ EndsIn(title, <<"hae", "ya">>)
       \/ EndsIn(title, <<"doen", "da">>)
       \/ EndsIn(title, <<"bat", "neun", "da">>)
       \/ EndsIn(title, <<"tta", "reun", "da">>)
       \/ EndsIn(title, <<"ui", "han", "da">>)
       \/ EndsIn(title, <<"jeong", "han", "da">>)
       \/ EndsIn(title, <<"bon", "da">>)
       \/ EndsIn(title, <<"cheo", "ri", "han", "da">>)
       \/ EndsIn(title, <<"gwan", "ri", "han", "da">>)

\* C12: each copy of is_sentence_title answers true exactly for a non-empty
\* title that ends with one of the eleven endings, so it is false for the
\* empty title and for 총칙, and the two copies agree on every title.
C12_SentenceTitleByEnding ==
    pc \in {"ArticleTitleJudged", "HierarchyTitleJudged"} =>
        /\ result = SentenceLike(text)
        /\ is_sentence_title(text) = hierarchy_is_sentence_title(text)
        /\ text \in {<<>>, <<"chong", "chik">>} => result = FALSE

\* the copy of HierarchyExtractor rejects 총칙한다 by its ending 한다
C12_SentenceTitleRejected ==
    /\ pc = "HierarchyTitleJudged"
    /\ text = <<"chong", "chik", "han", "da">>
    /\ result = TRUE

-----------------------------------------------------------------------------
(* NumberPredictor.parse_number on a marker string                         *)

MaxDigits == 2

\* the strings of at most n of the digits 0 and 1
DigitRuns(n) == UNION { [1..k -> {"0", "1"}] : k \in 0..n }

\* the number before the kind: a digit run or 4301 digits
MainParts == DigitRuns(MaxDigits) \cup { <<BIGDIGITS>> }

\* nothing, or '-' and a digit run
DashParts == { <<>> } \cup { <<"-">> \o ds : ds \in DigitRuns(MaxDigits) }

\* 장 절 관 조, 항 (no kind of parse_number), or nothing
KindParts == { <<k>> : k \in Kinds } \cup { <<"hang">>, <<>> }

\* nothing, or 의 and a digit run
SubParts == { <<>> } \cup { <<"ui">> \o ds : ds \in DigitRuns(MaxDigits) }

\* 제 + main + dash + kind + sub + tail, 제 left out in some and 가 the tail of
\* others
NumberStrings ==
    { je \o m \o d \o k \o u \o t :
        je \in { <<"je">>, <<>> }, m \in MainParts, d \in DashParts,
        k \in KindParts, u \in SubParts, t \in { <<>>, <<"ga">> } }

\* NumberPredictor.parse_number(text)
ParseNumber ==
    /\ pc = "Input"
    /\ ~parse_number_raises(text)
    /\ result' = parse_number(text)
    /\ pc' = "NumberParsed"
    /\ ParseIdle

\* parse_number is left by the ValueError of an int() call
RaiseInParseNumber ==
    /\ pc = "Input"
    /\ parse_number_raises(text)
    /\ pc' = "Raised"
    /\ UNCHANGED result
    /\ ParseIdle

NextNumbers == ParseNumber \/ RaiseInParseNumber

InitNumbers ==
    /\ text \in NumberStrings
    /\ pc = "Input"
    /\ Idle
    /\ NoArguments

\* parse_number on a string of NumberStrings
SpecNumbers == InitNumbers /\ [][NextNumbers]_vars

\* the characters of s from offset lo to offset hi - 1 are digits, one at least
AllDigits(s, lo, hi) ==
    /\ lo < hi
    /\ hi <= Len(s)
    /\ \A p \in lo..(hi - 1) : s[p + 1] \in {"0", "1", "2", "3", "4", "5", "6", "7", "8", "9"}

\* s starts with 제N-M<k>, '-' at offset a and the kind at offset b
StartsDashed(s, a, b) ==
    /\ a < b
    /\ Len(s) > b
    /\ s[1] = "je"
    /\ AllDigits(s, 1, a)
    /\ s[a + 1] = "-"
    /\ AllDigits(s, a + 1, b)
    /\ s[b + 1] \in {"jang", "jeol", "gwan", "jo"}

\* s starts with 제N<k>, the kind at offset a
StartsPlain(s, a) ==
    /\ Len(s) > a
    /\ s[1] = "je"
    /\ AllDigits(s, 1, a)
    /\ s[a + 1] \in {"jang", "jeol", "gwan", "jo"}

\* 의 and a digit follow the kind at offset b of s
SubFollows(s, b) ==
    /\ Len(s) > b + 2
    /\ s[b + 2] = "ui"
    /\ AllDigits(s, b + 2, b + 3)

\* C13: the record parse_number returns has main, dash and sub for 제N-M<k>의K,
\* dash and no sub for 제N-M<k>, sub and no dash for 제N<k>의K, neither for
\* 제N<k>, its type is the kind character, and the result is None for a
\* string of no shape.
C13_MostSpecificShapeWins ==
    pc = "NumberParsed" =>
        /\ \A a, b \in 1..Len(text) :
               StartsDashed(text, a, b) =>
                   /\ result.type = text[b + 1]
                   /\ result.main = Decimal(SubSeq(text, 2, a))
                   /\ result.dash = Decimal(SubSeq(text, a + 2, b))
                   /\ (result.sub # None) = SubFollows(text, b)
        /\ \A a \in 1..Len(text) :
               StartsPlain(text, a) =>
                   /\ result.type = text[a + 1]
                   /\ result.main = Decimal(SubSeq(text, 2, a))
                   /\ result.dash = None
                   /\ (result.sub # None) = SubFollows(text, a)
        /\ (/\ \A a, b \in 1..Len(text) : ~StartsDashed(text, a, b)
            /\ \A a \in 1..Len(text) : ~StartsPlain(text, a))
               => result = [type |-> "", main |-> None, dash |-> None, sub |-> None]

\* 제1조의1: the shape with 의 wins over the plain shape
C13_SubShapeBeforePlain ==
    /\ pc = "NumberParsed"
    /\ text = <<"je", "1", "jo", "ui", "1">>
    /\ result = [type |-> "jo", main |-> 1, dash |-> None, sub |-> 1]

\* the character of the digit d
DigitChar(d) == <<"0", "1", "2", "3", "4", "5", "6", "7", "8", "9">>[d + 1]

\* str(n) of a natural number n
RECURSIVE DecimalString(_)
DecimalString(n) ==
    IF n < 10 THEN <<DigitChar(n)>>
    ELSE Append(DecimalString(n \div 10), DigitChar(n % 10))

\* the canonical marker string of a record of parse_number:
\* 제 + main [+ '-' dash] + kind [+ 의 sub]
CanonicalMarker(parsed) ==
    <<"je">> \o DecimalString(parsed.main)
        \o (IF parsed.dash = None THEN <<>> ELSE <<"-">> \o DecimalString(parsed.dash))
        \o <<parsed.type>>
        \o (IF parsed.sub = None THEN <<>> ELSE <<"ui">> \o DecimalString(parsed.sub))

\* C14: parsing the canonical marker string of the record that parse_number
\* returns for a marker string gives that record again.
C14_CanonicalMarkerParsesBack ==
    (pc = "NumberParsed" /\ ~Unparsed(result)) =>
        parse_number(CanonicalMarker(result)) = result

\* 제01-0<k>의0 and the like: dash and sub are 0, and the string is not canonical
C14_ZeroPartsParsedBack ==
    /\ pc = "NumberParsed"
    /\ ~Unparsed(result)
    /\ result.dash = 0
    /\ result.sub = 0
    /\ CanonicalMarker(result) # text
    /\ parse_number(CanonicalMarker(result)) = result

-----------------------------------------------------------------------------
(* HierarchyExtractor.extract_hierarchy_structure and                      *)
(* ArticleHierarchyMatcher.find_belonging_hierarchy                        *)

\* lines 381-389: the nodes made of the boundaries bs, in their order
StructureNodes(bs) ==
    [k \in 1..Len(bs) |->
        [number |-> bs[k].number, title |-> bs[k].title,
         main_num |-> parse_number(bs[k].number).main, position |-> bs[k].pos]]

\* line 383: the boundaries whose number parse_number parses
ParsedBoundaries(bs) ==
    SelectSeq(bs, LAMBDA b : ~Unparsed(parse_number(b.number)))

\* HierarchyExtractor.extract_hierarchy_structure
extract_hierarchy_structure(raw) ==
    [jang |-> StructureNodes(ParsedBoundaries(find_hierarchy_boundaries(raw, "jang"))),
     jeol |-> StructureNodes(ParsedBoundaries(find_hierarchy_boundaries(raw, "jeol"))),
     gwan |-> StructureNodes(ParsedBoundaries(find_hierarchy_boundaries(raw, "gwan"))),
     jo |-> <<>>]

\* extract_hierarchy_structure raises ValueError
extract_hierarchy_structure_raises(raw) ==
    \E kind \in HierarchyTypes : find_hierarchy_boundaries_raises(raw, kind)

\* lines 456-461: the index of current_chapter after the loop from chapter k
\* on, 0 standing for None
RECURSIVE CurrentChapter(_, _, _, _)
CurrentChapter(chapters, position, k, current) ==
    IF k > Len(chapters) THEN current
    ELSE IF chapters[k].position <= position
         THEN CurrentChapter(chapters, position, k + 1, k)
         ELSE current

\* the least index of a set of indices; 0 when it is empty
FirstOf(indices) == IF indices = {} THEN 0 ELSE Least(indices)

\* ArticleHierarchyMatcher._find_next_chapter: the index of the first chapter
\* whose main_num is greater; 0 when there is none
find_next_chapter(current_chapter_num, chapters) ==
    FirstOf({ k \in 1..Len(chapters) : chapters[k].main_num > current_chapter_num })

\* ArticleHierarchyMatcher._find_next_section: the index of the section after
\* the first one that has the number of current_section; 0 when there is none
matcher_find_next_section(current_section, sections) ==
    NextAfterFirst(SameNumber(current_section, sections), Len(sections))

\* the position of node k; None for k = 0
PositionOf(nodes, k) == IF k = 0 THEN None ELSE nodes[k].position

\* the loops of lines 469-481, 488-500 and 507-518 from node k on: the index
\* of the last node after lower_position, not after position and before
\* next_position (None: no next node), 0 standing for None
RECURSIVE CurrentWithin(_, _, _, _, _, _)
CurrentWithin(nodes, lower_position, position, next_position, k, current) ==
    IF k > Len(nodes) THEN current
    ELSE IF nodes[k].position > lower_position /\ nodes[k].position <= position
         THEN IF next_position = None \/ nodes[k].position < next_position
              THEN CurrentWithin(nodes, lower_position, position, next_position,
                                 k + 1, k)
              ELSE current
    ELSE IF nodes[k].position > position THEN current
    ELSE CurrentWithin(nodes, lower_position, position, next_position, k + 1,
                       current)

\* lines 502-503 and 520-521
SubsectionTitle(subsections, k) ==
    IF k = 0 THEN <<>> ELSE <<subsections[k].title>>

\* lines 483-521 for chapter c and current_section s
BelongingOfSection(position, structure, c, next_chapter_position, s) ==
    IF s # 0
    THEN <<structure.jang[c].title, structure.jeol[s].title>> \o
         SubsectionTitle(structure.gwan,
             CurrentWithin(structure.gwan, structure.jeol[s].position, position,
                 PositionOf(structure.jeol,
                     matcher_find_next_section(structure.jeol[s], structure.jeol)),
                 1, 0))
    ELSE <<structure.jang[c].title>> \o
         SubsectionTitle(structure.gwan,
             CurrentWithin(structure.gwan, structure.jang[c].position, position,
                           next_chapter_position, 1, 0))

\* lines 463-521 for current_chapter c
BelongingOfChapter(position, structure, c, next_chapter_position) ==
    BelongingOfSection(position, structure, c, next_chapter_position,
        CurrentWithin(structure.jeol, structure.jang[c].position, position,
                      next_chapter_position, 1, 0))

\* lines 463-523 for current_chapter c, 0 standing for None
BelongingFrom(position, structure, c) ==
    IF c = 0 THEN <<>>
    ELSE BelongingOfChapter(position, structure, c,
             PositionOf(structure.jang,
                 find_next_chapter(structure.jang[c].main_num, structure.jang)))

\* ArticleHierarchyMatcher.find_belonging_hierarchy
find_belonging_hierarchy(position, structure) ==
    BelongingFrom(position, structure,
                  CurrentChapter(structure.jang, position, 1, 0))

MaxStructureSegs == 3

MaxPosition == 12

\* 제1장가  제2장나  제1절다  제2절라  제1관마  제<4301 digits>장바
\* ("ra" 라, "ma" 마, "ba" 바)
StructureSegments ==
    { <<"je", "1", "jang", "ga">>, <<"je", "2", "jang", "na">>,
      <<"je", "1", "jeol", "da">>, <<"je", "2", "jeol", "ra">>,
      <<"je", "1", "gwan", "ma">>, <<"je", BIGDIGITS, "jang", "ba">> }

\* HierarchyExtractor.extract_hierarchy_structure(text)
ExtractHierarchyStructure ==
    /\ pc = "Input"
    /\ ~extract_hierarchy_structure_raises(text)
    /\ hierarchy_structure' = extract_hierarchy_structure(text)
    /\ pc' = "StructureExtracted"
    /\ UNCHANGED <<text, hierarchy_type, article_position, article_number, walk,
                   processed_text, all_articles, chapter_boundaries, i,
                   chapter_text, chapter_articles, chapter_hierarchy,
                   enhanced_articles, result>>

\* extract_hierarchy_structure is left by the ValueError of line 352
RaiseInStructure ==
    /\ pc = "Input"
    /\ extract_hierarchy_structure_raises(text)
    /\ pc' = "Raised"
    /\ UNCHANGED result
    /\ ParseIdle

\* ArticleHierarchyMatcher.find_belonging_hierarchy(article_position,
\* hierarchy_structure)
FindBelongingHierarchy ==
    /\ pc = "StructureExtracted"
    /\ result' = find_belonging_hierarchy(article_position, hierarchy_structure)
    /\ pc' = "HierarchyFound"
    /\ ParseIdle

NextBelonging == ExtractHierarchyStructure \/ RaiseInStructure \/ FindBelongingHierarchy

InitBelonging ==
    /\ text \in Texts(StructureSegments, MaxStructureSegs)
    /\ article_position \in 0..MaxPosition
    /\ pc = "Input"
    /\ Idle
    /\ hierarchy_type = ""
    /\ article_number = <<>>
    /\ hierarchy_structure = [jang |-> <<>>, jeol |-> <<>>, gwan |-> <<>>, jo |-> <<>>]

\* find_belonging_hierarchy on the structure of a text of StructureSegments
SpecBelonging == InitBelonging /\ [][NextBelonging]_vars

\* the indices of the chapters that start at or before the position
ChaptersUpTo(chapters, position) ==
    { k \in 1..Len(chapters) : chapters[k].position <= position }

\* chapter k is the one of the greatest position among the indices
Nearest(chapters, indices, k) ==
    /\ k \in indices
    /\ \A j \in indices : chapters[j].position <= chapters[k].position

-----------------------------------------------------------------------------
(* SmartParser.parse on texts with chapters, sections and subsections      *)

MaxTitledSegs == 4

\* 제1장가  제2장.  제1절다  제1관마  제1조(나)  제2조(라)
\* 제<4301 digits>장바  제<4301 digits>절바
TitledSegments ==
    { <<"je", "1", "jang", "ga">>, <<"je", "2", "jang", ".">>,
      <<"je", "1", "jeol", "da">>, <<"je", "1", "gwan", "ma">>,
      <<"je", "1", "jo", "(", "na", ")">>, <<"je", "2", "jo", "(", "ra", ")">>,
      <<"je", BIGDIGITS, "jang", "ba">>, <<"je", BIGDIGITS, "jeol", "ba">> }

InitTitled ==
    /\ text \in Texts(TitledSegments, MaxTitledSegs)
    /\ pc = "Unparsed"
    /\ Idle
    /\ NoArguments

\* SmartParser.parse on a text of TitledSegments
SpecTitled == InitTitled /\ [][Next]_vars

\* nothing, or the title of one of the nodes followed by ', '
OptionalSegments(nodes) ==
    { <<>> } \cup { nodes[k].title \o <<",", " ">> : k \in 1..Len(nodes) }

\* chapter title, ', ', a section title and ', ' or nothing, a subsection
\* title and ', ' or nothing, the original title
ComposedTitles(chapter_title, hierarchy, original_title) ==
    { chapter_title \o <<",", " ">> \o section \o subsection \o original_title :
        section \in OptionalSegments(hierarchy.jeol),
        subsection \in OptionalSegments(hierarchy.gwan) }

\* the article of enhanced_articles made of article k of the chapter under way
EnhancedOf(k) ==
    enhanced_articles[Len(enhanced_articles) - Len(chapter_articles) + k]

\* C16: the title of an article of a chapter is the chapter title, the title
\* of a section of the chapter if one was found, the title of a subsection of
\* the chapter if one was found, and the original title, in that order and
\* joined by ', '; an ancestor that was not found adds nothing.
C16_TitleIsJoinedAncestors ==
    pc = "TitlesComposed" =>
        \A k \in 1..Len(chapter_articles) :
            /\ EnhancedOf(k).title \in
                   ComposedTitles(chapter_boundaries[i].title, chapter_hierarchy,
                                  chapter_articles[k].title)
            /\ EnhancedOf(k).number = chapter_articles[k].number

\* 제1장가 제1절다 제1관마 제1조(나): parse returns the title 가, 다, 마, 나
C16_AllAncestorsJoined ==
    /\ pc = "Done"
    /\ Len(result) = 1
    /\ result[1].title = <<"ga", ",", " ", "da", ",", " ", "ma", ",", " ", "na">>

-----------------------------------------------------------------------------
(* The list find_hierarchy_boundaries returns                              *)

\* C17: the boundaries find_hierarchy_boundaries returns are in the order of
\* their positions, ascending.
C17_BoundariesAscendByPosition ==
    pc = "BoundariesReturned" =>
        \A j, k \in 1..Len(result) : j < k => result[j].pos < result[k].pos

\* C18: no two boundaries that find_hierarchy_boundaries returns have the
\* same main number.
C18_OneBoundaryPerNumber ==
    pc = "BoundariesReturned" =>
        \A j, k \in 1..Len(result) :
            j < k => parse_number(result[j].number).main
                         # parse_number(result[k].number).main

\* n is one of the numbers of the list
Among(n, numbers) == \E k \in 1..Len(numbers) : numbers[k] = n

\* C19: the main number of every boundary find_hierarchy_boundaries returns is
\* one of the numbers find_all_hierarchy_numbers finds in the preprocessed
\* text; a difference between the count of those numbers and the count of
\* the boundaries does not keep the boundaries from being returned.
C19_OnlyConfirmedNumbersKept ==
    pc = "BoundariesReturned" =>
        \A k \in 1..Len(result) :
            Among(parse_number(result[k].number).main,
                  find_all_hierarchy_numbers(preprocess_text(text), hierarchy_type))

\* boundaries are returned although there are more confirmed numbers than
\* boundaries (2K제1K가: the numbers 1 and 2, the one boundary 제1K)
C19_ReturnedDespiteMismatch ==
    /\ pc = "BoundariesReturned"
    /\ Len(result) = 1
    /\ Len(find_all_hierarchy_numbers(preprocess_text(text), hierarchy_type)) = 2

-----------------------------------------------------------------------------
(* ArticleHierarchyMatcher.find_article_position_in_text                   *)

\* ArticleHierarchyMatcher.is_article_reference
matcher_is_article_reference(s, match_start) ==
    ArticleReferenceAfter(s, Find(s, ")", match_start))

\* line 449 alone: the start of the first match, whatever the matches after it
FirstMatch(s, matches, first) == first

\* lines 441-449: the start of the first of the matches that is not a
\* reference, or first when all of them are
RECURSIVE FirstNonReference(_, _, _)
FirstNonReference(s, matches, first) ==
    IF matches = <<>> THEN first
    ELSE IF ~matcher_is_article_reference(s, Head(matches)) THEN Head(matches)
    ELSE FirstNonReference(s, Tail(matches), first)

\* lines 437-449, matches being the starts of the matches of line 435
PositionAmong(s, matches) ==
    IF matches = <<>> THEN None ELSE FirstNonReference(s, matches, matches[1])

\* ArticleHierarchyMatcher.find_article_position_in_text
find_article_position_in_text(s, number) ==
    PositionAmong(s, HeadingStarts(s, 0, number, <<>>, TRUE))

MaxPositionSegs == 4

\* 제1조(가)  제2조(나)  제1조  제1조(  및  다  제3항
PositionSegments ==
    { <<"je", "1", "jo", "(", "ga", ")">>, <<"je", "2", "jo", "(", "na", ")">>,
      <<"je", "1", "jo">>, <<"je", "1", "jo", "(">>, <<"mit">>, <<"da">>,
      <<"je", "3", "hang">> }

\* 제1조 and 제3조, which no text of PositionSegments holds
ArticleNumbers == { <<"je", "1", "jo">>, <<"je", "3", "jo">> }

\* ArticleHierarchyMatcher.find_article_position_in_text(text, article_number)
FindArticlePosition ==
    /\ pc = "Input"
    /\ result' = find_article_position_in_text(text, article_number)
    /\ pc' = "PositionFound"
    /\ ParseIdle

NextPosition == FindArticlePosition

InitPosition ==
    /\ text \in Texts(PositionSegments, MaxPositionSegs)
    /\ article_number \in ArticleNumbers
    /\ pc = "Input"
    /\ Idle
    /\ hierarchy_type = ""
    /\ article_position = 0
    /\ hierarchy_structure = [jang |-> <<>>, jeol |-> <<>>, gwan |-> <<>>, jo |-> <<>>]

\* find_article_position_in_text on a text of PositionSegments
SpecPosition == InitPosition /\ [][NextPosition]_vars

\* the offsets of s where number, white space and a title in parentheses stand
Occurrences(s, number) ==
    { p \in 0..(Len(s) - 1) : HeadingEnd(s, p, number) # -1 }

\* the occurrences that is_article_reference does not classify as a reference
RealOccurrences(s, number) ==
    { p \in Occurrences(s, number) : ~matcher_is_article_reference(s, p) }

\* C20: find_article_position_in_text returns the first occurrence of the
\* number with a title that is not classified as a reference, the very first
\* occurrence when all are classified as references, and None only when
\* there is no occurrence.
C20_FirstRealOccurrence ==
    pc = "PositionFound" =>
        IF Occurrences(text, article_number) = {} THEN result = None
        ELSE IF RealOccurrences(text, article_number) = {}
             THEN result = Least(Occurrences(text, article_number))
             ELSE result = Least(RealOccurrences(text, article_number))

\* the first occurrence is a reference and a later one is returned
C20_ReferenceSkipped ==
    /\ pc = "PositionFound"
    /\ result # None
    /\ result > Least(Occurrences(text, article_number))


-----------------------------------------------------------------------------
(* SmartParser.parse on texts in which an article is cited before its      *)
(* heading                                                                 *)

MaxCitedSegs == 4

\* 제1장가  제2장나  제1조(가)  제1조(가)및  제<4301 digits>장다
\* 제<4301 digits>절다
CitedSegments ==
    { <<"je", "1", "jang", "ga">>, <<"je", "2", "jang", "na">>,
      <<"je", "1", "jo", "(", "ga", ")">>,
      <<"je", "1", "jo", "(", "ga", ")", "mit">>,
      <<"je", BIGDIGITS, "jang", "da">>, <<"je", BIGDIGITS, "jeol", "da">> }

InitCited ==
    /\ text \in Texts(CitedSegments, MaxCitedSegs)
    /\ pc = "Unparsed"
    /\ Idle
    /\ NoArguments

\* SmartParser.parse on a text of CitedSegments
SpecCited == InitCited /\ [][Next]_vars

RECURSIVE FirstUncited(_, _)
\* the first of the offsets that is_article_reference does not classify as a
\* reference, None when there is none
FirstUncited(s, starts) ==
    IF starts = <<>> THEN None
    ELSE IF ~is_article_reference(s, Head(starts)) THEN Head(starts)
    ELSE FirstUncited(s, Tail(starts))

\* the start of the first occurrence of the article's number and title that
\* is_article_reference does not classify as a reference
FirstUncitedHeading(s, article) ==
    FirstUncited(s, HeadingStarts(s, 0, article.number, article.title, FALSE))

\* C21: an article is assigned to chapter i exactly when the start of its
\* first occurrence that is_article_reference does not classify as a
\* reference lies between the position of chapter i and the position of the
\* next chapter of the list, or the end of the text.
C21_AssignedByFirstUncitedHeading ==
    pc = "ArticlesAssigned" =>
        chapter_articles =
            SelectSeq(all_articles,
                LAMBDA a : InChapter(FirstUncitedHeading(processed_text, a),
                               chapter_boundaries[i].pos,
                               ChapterEnd(chapter_boundaries, i, processed_text)))


\* some occurrence of the article's number and title in s is not classified
\* as a reference by is_article_reference
HasUncitedHeading(s, article) == FirstUncitedHeading(s, article) # None

\* position is an occurrence that is_article_reference does not classify as a
\* reference
Uncited(s, position) ==
    /\ position # None
    /\ ~is_article_reference(s, position)

\* C22: when an occurrence of an article that is_article_reference does not
\* classify as a reference exists, the occurrence that chapter assignment
\* takes for the article, and the one that the chapter-local fallback match
\* takes, is not one that is_article_reference classifies as a reference.
C22_OneReferencePredicate ==
    /\ pc = "ArticlesAssigned" =>
           \A k \in 1..Len(all_articles) :
               HasUncitedHeading(processed_text, all_articles[k]) =>
                   Uncited(processed_text,
                       find_first_real_article_position(processed_text,
                                                        all_articles[k]))
    /\ pc = "LocalHierarchyResolved" =>
           \A k \in 1..Len(chapter_articles) :
               ( /\ HeadingStarts(chapter_text, 0, chapter_articles[k].number,
                                  chapter_articles[k].title, FALSE) = <<>>
                 /\ FirstUncited(chapter_text,
                        HeadingStarts(chapter_text, 0, chapter_articles[k].number,
                                      chapter_articles[k].title, TRUE)) # None ) =>
                   Uncited(chapter_text,
                       LocalArticlePosition(chapter_text, chapter_articles[k]))


-----------------------------------------------------------------------------
(* HierarchyExtractor.is_hierarchy_reference at the matches of              *)
(* find_hierarchy_boundaries                                                *)

MaxReferenceSegs == 3

\* 제1장  제1-2장  제1절  제1-2절  제1관  제1조  space  가  및
ReferenceSegments ==
    { <<"je", "1", "jang">>, <<"je", "1", "-", "2", "jang">>,
      <<"je", "1", "jeol">>, <<"je", "1", "-", "2", "jeol">>,
      <<"je", "1", "gwan">>, <<"je", "1", "jo">>, <<" ">>, <<"ga">>, <<"mit">> }

\* the starts of the matches of the pattern of find_hierarchy_boundaries
MatchStarts(s, kind) ==
    { BoundaryMatches(s, 0, kind)[k].start :
          k \in 1..Len(BoundaryMatches(s, 0, kind)) }

\* HierarchyExtractor.is_hierarchy_reference(text, match_start, hierarchy_type)
IsHierarchyReference ==
    /\ pc = "Input"
    /\ result' = is_hierarchy_reference(text, article_position, hierarchy_type)
    /\ pc' = "ReferenceJudged"
    /\ ParseIdle

NextReference == IsHierarchyReference

InitReference ==
    /\ hierarchy_type \in HierarchyTypes
    /\ text \in Texts(ReferenceSegments, MaxReferenceSegs)
    /\ article_position \in MatchStarts(text, hierarchy_type)
    /\ pc = "Input"
    /\ Idle
    /\ article_number = <<>>
    /\ hierarchy_structure = [jang |-> <<>>, jeol |-> <<>>, gwan |-> <<>>, jo |-> <<>>]

\* is_hierarchy_reference at a match of find_hierarchy_boundaries in a text
\* of ReferenceSegments
SpecReference == InitReference /\ [][NextReference]_vars

\* the kinds below kind, the article included
LowerKinds(kind) ==
    IF kind = "jang" THEN {"jeol", "gwan", "jo"}
    ELSE IF kind = "jeol" THEN {"gwan", "jo"}
    ELSE {"jo"}

\* a marker 제<digits>K of a kind below kind stands at offset e of s, after
\* white space
LowerMarkerFollows(s, e, kind) ==
    \E lower \in LowerKinds(kind) :
        PlainMarkerEnd(s, SkipSpaces(s, e), lower) # -1

\* the end of the marker of kind, dashed or not, that starts at p
MarkerEndAt(s, p, kind) == MarkerCoreEnd(s, p, kind)

\* C23: a marker that find_hierarchy_boundaries matches, dashed or not, is
\* classified as a reference when a marker of a lower kind follows it, and
\* when none follows and no list word or connective does either, it is not.
C23_ReferenceByLowerMarker ==
    pc = "ReferenceJudged" =>
        IF LowerMarkerFollows(text, MarkerEndAt(text, article_position,
                                                hierarchy_type), hierarchy_type)
        THEN result = TRUE
        ELSE ListOrConnective(WindowAfter(text,
                 MarkerEndAt(text, article_position, hierarchy_type), AfterWindow))
             \/ result = FALSE


-----------------------------------------------------------------------------
(* SmartParser.parse on chapters with two sections and a subsection         *)

MaxLocalSegs == 4

\* 제1장가  제1절나  제2절다  제1관라  제1조(마)  제<4301 digits>장바
\* 제<4301 digits>절바
LocalSegments ==
    { <<"je", "1", "jang", "ga">>, <<"je", "1", "jeol", "na">>,
      <<"je", "2", "jeol", "da">>, <<"je", "1", "gwan", "ra">>,
      <<"je", "1", "jo", "(", "ma", ")">>,
      <<"je", BIGDIGITS, "jang", "ba">>, <<"je", BIGDIGITS, "jeol", "ba">> }

InitLocal ==
    /\ text \in Texts(LocalSegments, MaxLocalSegs)
    /\ pc = "Unparsed"
    /\ Idle
    /\ NoArguments

\* SmartParser.parse on a text of LocalSegments
SpecLocal == InitLocal /\ [][Next]_vars

\* the nodes that stand from lower to upper and before stop (stop = None:
\* no stop)
NodesWithin(nodes, lower, upper, stop) ==
    { k \in 1..Len(nodes) :
        /\ lower <= nodes[k].relative_position
        /\ nodes[k].relative_position <= upper
        /\ stop = None \/ nodes[k].relative_position < stop }

\* the node of the set that stands last in the text; 0 when the set is empty
LastByPosition(nodes, among) ==
    IF among = {} THEN 0
    ELSE CHOOSE k \in among :
             \A j \in among : nodes[j].relative_position <= nodes[k].relative_position

\* the position of the first section that stands after offset from; None
\* when there is none
NextSectionPosition(sections, from) ==
    IF \A k \in 1..Len(sections) : sections[k].relative_position <= from THEN None
    ELSE Least({ sections[k].relative_position : k \in
                   { j \in 1..Len(sections) : sections[j].relative_position > from } })

\* the last section at or before offset pos; 0 when there is none
SectionBefore(hierarchy, pos) ==
    LastByPosition(hierarchy.jeol, NodesWithin(hierarchy.jeol, 0, pos, None))

\* the last subsection from the section sec (the chapter start when sec = 0)
\* to pos and before the section after sec; 0 when there is none
SubsectionBefore(hierarchy, pos, sec) ==
    LastByPosition(hierarchy.gwan,
        IF sec = 0 THEN NodesWithin(hierarchy.gwan, 0, pos, None)
        ELSE NodesWithin(hierarchy.gwan, hierarchy.jeol[sec].relative_position, pos,
                 NextSectionPosition(hierarchy.jeol,
                                     hierarchy.jeol[sec].relative_position)))

\* C24: the section in the title of an article found in its chapter is the
\* last section of the chapter at or before the article, and the subsection
\* is the last subsection between that section (or the chapter start) and
\* the article that stands before the next section.
C24_LastSectionAndSubsection ==
    pc = "TitlesComposed" =>
        \A k \in 1..Len(chapter_articles) :
            LocalArticlePosition(chapter_text, chapter_articles[k]) # None =>
                EnhancedOf(k).title =
                    Join(TitleParts(chapter_articles[k], chapter_boundaries[i].title,
                        chapter_hierarchy,
                        SectionBefore(chapter_hierarchy,
                            LocalArticlePosition(chapter_text, chapter_articles[k])),
                        SubsectionBefore(chapter_hierarchy,
                            LocalArticlePosition(chapter_text, chapter_articles[k]),
                            SectionBefore(chapter_hierarchy,
                                LocalArticlePosition(chapter_text, chapter_articles[k])))))


-----------------------------------------------------------------------------
(* find_hierarchy_boundaries on markers whose title meets a line break or   *)
(* runs past the window of 30 characters                                    *)

MaxWindowSegs == 3

\* the longest text: one title past the window, a marker and a line break
MaxWindowLen == 40

\* 31 times 가
LongTitle == [k \in 1..(TitleWindow + 1) |-> "ga"]

\* 제1K가  제2K나  line break  space  31 times 가  제<4301 digits>K다
WindowSegments(kind) ==
    { <<"je", "1", kind, "ga">>, <<"je", "2", kind, "na">>, <<"\n">>, <<" ">>,
      LongTitle, <<"je", BIGDIGITS, kind, "da">> }

InitWindow ==
    /\ hierarchy_type \in HierarchyTypes
    /\ text \in { t \in Texts(WindowSegments(hierarchy_type), MaxWindowSegs) :
                     Len(t) <= MaxWindowLen }
    /\ pc = "Input"
    /\ Idle
    /\ article_position = 0
    /\ article_number = <<>>
    /\ hierarchy_structure = [jang |-> <<>>, jeol |-> <<>>, gwan |-> <<>>, jo |-> <<>>]

\* the two operations on a text of WindowSegments
SpecWindow == InitWindow /\ [][NextHierarchy]_vars

\* the offsets of s where a marker 제<digits>K stands that
\* is_hierarchy_reference does not classify as a reference
UncitedMarkers(s, kind) ==
    { p \in 0..(Len(s) - 1) :
        /\ PlainMarkerEnd(s, p, kind) # -1
        /\ ~is_hierarchy_reference(s, p, kind) }

\* C25: every marker that is not a reference yields a node at its offset,
\* with a title of at most 30 characters, also when a line break or more
\* than 30 characters separate it from the next 제<digit> or the end of the
\* text.  (No title of WindowSegments is a sentence.)
C25_EveryMarkerYieldsNode ==
    pc = "BoundariesReturned" =>
        \A p \in UncitedMarkers(text, hierarchy_type) :
            \E k \in 1..Len(result) :
                /\ result[k].pos = p
                /\ Len(result[k].title) <= TitleWindow


-----------------------------------------------------------------------------
(* NumberPredictor.predict_next_numbers                                     *)

\* f"제{main}-{dash}{t}의{sub}" with the parts that are None left out
FormatMarker(main, dash, t, sub) ==
    <<"je">> \o DecimalString(main)
        \o (IF dash = None THEN <<>> ELSE <<"-">> \o DecimalString(dash))
        \o <<t>>
        \o (IF sub = None THEN <<>> ELSE <<"ui">> \o DecimalString(sub))

\* lines 60-82: the branches test dash and sub for truth, and None and 0 are
\* both false
PredictedFrom(t, main, dash, sub) ==
    IF dash \notin {None, 0} /\ sub \notin {None, 0}
    THEN << FormatMarker(main, dash, t, sub + 1),
            FormatMarker(main, dash + 1, t, None),
            FormatMarker(main + 1, 1, t, None) >>
    ELSE IF dash \notin {None, 0}
    THEN << FormatMarker(main, dash, t, 2),
            FormatMarker(main, dash + 1, t, None),
            FormatMarker(main + 1, 1, t, None) >>
    ELSE IF sub \notin {None, 0}
    THEN << FormatMarker(main, None, t, sub + 1),
            FormatMarker(main + 1, None, t, None) >>
    ELSE << FormatMarker(main, None, t, 2),
            FormatMarker(main + 1, None, t, None) >>

\* lines 51-58
PredictedOf(parsed) ==
    IF Unparsed(parsed) THEN <<>>
    ELSE PredictedFrom(parsed.type, parsed.main, parsed.dash, parsed.sub)

\* NumberPredictor.predict_next_numbers
predict_next_numbers(current_number) == PredictedOf(parse_number(current_number))

\* NumberPredictor.predict_next_numbers(text)
PredictNextNumbers ==
    /\ pc = "Input"
    /\ ~parse_number_raises(text)
    /\ result' = predict_next_numbers(text)
    /\ pc' = "NumbersPredicted"
    /\ ParseIdle

\* line 51: parse_number is left by the ValueError of an int() call
RaiseInPredict ==
    /\ pc = "Input"
    /\ parse_number_raises(text)
    /\ pc' = "Raised"
    /\ UNCHANGED result
    /\ ParseIdle

NextPredict == PredictNextNumbers \/ RaiseInPredict

\* predict_next_numbers on a string of NumberStrings
SpecPredict == InitNumbers /\ [][NextPredict]_vars

\* the successors of a dashed marker: the same main and dash with the sub
\* incremented (의2 without sub), the next dash, the first dash of the next main
DashedSuccessors(t, main, dash, sub) ==
    { FormatMarker(main, dash, t, IF sub = None THEN 2 ELSE sub + 1),
      FormatMarker(main, dash + 1, t, None),
      FormatMarker(main + 1, 1, t, None) }

\* the successors of a marker without dash: the same main with the sub
\* incremented (의2 without sub), the next main
PlainSuccessors(t, main, sub) ==
    { FormatMarker(main, None, t, IF sub = None THEN 2 ELSE sub + 1),
      FormatMarker(main + 1, None, t, None) }

\* the successors of the marker that parse_number reads
Successors(parsed) ==
    IF Unparsed(parsed) THEN {}
    ELSE IF parsed.dash # None
         THEN DashedSuccessors(parsed.type, parsed.main, parsed.dash, parsed.sub)
         ELSE PlainSuccessors(parsed.type, parsed.main, parsed.sub)

\* C26: predict_next_numbers returns exactly the successors of the marker in
\* its own numbering convention, dashed for a dashed marker also when its
\* dash or sub is 0, and the empty list for a string that is no marker.
C26_SuccessorsKeepConvention ==
    pc = "NumbersPredicted" =>
        { result[k] : k \in 1..Len(result) } = Successors(parse_number(text))


-----------------------------------------------------------------------------
(* SmartParser.parse on chapters that hold an article only under a number   *)
(* written with white space, and a citation of the number                   *)

MaxFallbackSegs == 4

\* 제1장가  제1절다  제 1조(가)  제1조(나)및  제<4301 digits>장바
\* 제<4301 digits>절바
FallbackSegments ==
    { <<"je", "1", "jang", "ga">>, <<"je", "1", "jeol", "da">>,
      <<"je", " ", "1", "jo", "(", "ga", ")">>,
      <<"je", "1", "jo", "(", "na", ")", "mit">>,
      <<"je", BIGDIGITS, "jang", "ba">>, <<"je", BIGDIGITS, "jeol", "ba">> }

InitFallback ==
    /\ text \in Texts(FallbackSegments, MaxFallbackSegs)
    /\ pc = "Unparsed"
    /\ Idle
    /\ NoArguments

\* SmartParser.parse on a text of FallbackSegments
SpecFallback == InitFallback /\ [][Next]_vars

\* the first of the occurrences when there is no real one among them
FirstOrNone(real, occurrences) ==
    IF real # None THEN real
    ELSE IF occurrences # <<>> THEN occurrences[1]
    ELSE None

\* the offset by the order exact match, first occurrence of the number with
\* any title that is not a reference, first occurrence with any title
OrderedPosition(chapter_txt, exact, occurrences) ==
    IF exact # <<>> THEN exact[1]
    ELSE FirstOrNone(FirstReal(chapter_txt, occurrences), occurrences)

\* the offset of the article in the chapter text by that order, or None
FallbackPosition(chapter_txt, article) ==
    OrderedPosition(chapter_txt,
        HeadingStarts(chapter_txt, 0, article.number, article.title, FALSE),
        HeadingStarts(chapter_txt, 0, article.number, article.title, TRUE))

\* C27: an article is located in its chapter text by the exact match, else
\* by the first occurrence of its number with any title that is not a
\* reference, else by the first such occurrence, and its title is the bare
\* '<chapter title>, <original title>' only when there is no occurrence; one
\* record is emitted for each article.
C27_FallbackOrder ==
    pc = "TitlesComposed" =>
        /\ Len(enhanced_articles) >= Len(chapter_articles)
        /\ \A k \in 1..Len(chapter_articles) :
               EnhancedOf(k).title =
                   TitleAt(chapter_articles[k], chapter_boundaries[i].title,
                           chapter_hierarchy,
                           FallbackPosition(chapter_text, chapter_articles[k]))


-----------------------------------------------------------------------------
(* lawapi: _build_structure_hierarchy_standalone; the method                *)
(* LawAPI._build_structure_hierarchy has the same text                      *)

\* re.sub(r'<[^>]*>', '', content), from offset p on
RECURSIVE RemoveAngles(_, _)
RemoveAngles(s, p) ==
    IF p >= Len(s) THEN <<>>
    ELSE IF Ch(s, p) = "<" /\ Find(s, ">", p + 1) # -1
         THEN RemoveAngles(s, Find(s, ">", p + 1) + 1)
         ELSE <<Ch(s, p)>> \o RemoveAngles(s, p + 1)

\* the end of 제\d+K(?:의\d+)? at offset p, or -1
StructureMarkerEnd(s, p, kind) ==
    IF Ch(s, p) = "je" /\ IsDigit(Ch(s, p + 1))
    THEN SubSuffixEnd(s, KindEnd(s, SkipDigits(s, p + 1), kind))
    ELSE -1

\* lines 718-725 on content.strip()
StructureTypeOf(s) ==
    IF StructureMarkerEnd(s, 0, "jang") # -1 THEN "jang"
    ELSE IF StructureMarkerEnd(s, 0, "jeol") # -1 THEN "jeol"
    ELSE IF StructureMarkerEnd(s, 0, "gwan") # -1 THEN "gwan"
    ELSE "jo"

\* _identify_structure_type_standalone
identify_structure_type(content) ==
    IF content = <<>> THEN "jo" ELSE StructureTypeOf(Strip(content))

\* the end of the line that holds offset p
RECURSIVE LineEnd(_, _)
LineEnd(s, p) ==
    IF p >= Len(s) \/ Ch(s, p) = "\n" THEN p ELSE LineEnd(s, p + 1)

\* the start of group 1 of 제\d+K(?:의\d+)?\s+(.+) for a marker that ends at
\* e, or -1: white space, then a character that is no line break
StructureTitleStart(s, e) ==
    IF e # -1 /\ SkipSpaces(s, e) > e /\ SkipSpaces(s, e) < Len(s)
    THEN SkipSpaces(s, e)
    ELSE -1

\* re.search of the pattern of kind in s from offset p on: the start of
\* group 1, or -1
RECURSIVE StructureTitleSearch(_, _, _)
StructureTitleSearch(s, p, kind) ==
    IF p >= Len(s) THEN -1
    ELSE IF StructureTitleStart(s, StructureMarkerEnd(s, p, kind)) # -1
         THEN StructureTitleStart(s, StructureMarkerEnd(s, p, kind))
    ELSE StructureTitleSearch(s, p + 1, kind)

\* match.group(1).strip() for group 1 starting at t
StructureTitleAt(s, t) == Strip(Slice(s, t, LineEnd(s, t)))

\* lines 690-703: the three patterns in their order, else the whole text
StructureTitleOf(s) ==
    IF StructureTitleSearch(s, 0, "jang") # -1
    THEN StructureTitleAt(s, StructureTitleSearch(s, 0, "jang"))
    ELSE IF StructureTitleSearch(s, 0, "jeol") # -1
    THEN StructureTitleAt(s, StructureTitleSearch(s, 0, "jeol"))
    ELSE IF StructureTitleSearch(s, 0, "gwan") # -1
    THEN StructureTitleAt(s, StructureTitleSearch(s, 0, "gwan"))
    ELSE s

\* _extract_structure_title_standalone
extract_structure_title(content) ==
    IF content = <<>> THEN <<>>
    ELSE StructureTitleOf(Strip(RemoveAngles(content, 0)))

\* _combine_structure_titles_standalone
combine_structure_titles(jang, jeol, gwan, original_title) ==
    Join(SelectSeq(<<jang, jeol, gwan, original_title>>, LAMBDA part : part # <<>>))

\* the section kept over a chapter item
SectionKept(jeol) == jeol

\* line 774: a new chapter resets the section
SectionAfterChapter(jeol) == <<>>

\* the variables of the other operations
OutsideWalk ==
    UNCHANGED <<text, arguments, processed_text, all_articles, chapter_boundaries, i,
                chapter_text, chapter_articles, chapter_hierarchy,
                enhanced_articles>>

\* the loop has an item left and it is of the type
NextItemIs(type) ==
    /\ pc = "Walking"
    /\ item < Len(chatbot_data)
    /\ identify_structure_type(chatbot_data[item + 1].content) = type

\* lines 772-776
ChapterItem ==
    /\ NextItemIs("jang")
    /\ current_jang' = extract_structure_title(chatbot_data[item + 1].content)
    /\ current_jeol' = SectionAfterChapter(current_jeol)
    /\ current_gwan' = <<>>
    /\ item' = item + 1
    /\ UNCHANGED <<pc, chatbot_data, result>>
    /\ OutsideWalk

\* lines 778-781
SectionItem ==
    /\ NextItemIs("jeol")
    /\ current_jeol' = extract_structure_title(chatbot_data[item + 1].content)
    /\ current_gwan' = <<>>
    /\ item' = item + 1
    /\ UNCHANGED <<pc, chatbot_data, current_jang, result>>
    /\ OutsideWalk

\* lines 783-785
SubsectionItem ==
    /\ NextItemIs("gwan")
    /\ current_gwan' = extract_structure_title(chatbot_data[item + 1].content)
    /\ item' = item + 1
    /\ UNCHANGED <<pc, chatbot_data, current_jang, current_jeol, result>>
    /\ OutsideWalk

\* lines 787-798
ArticleItem ==
    /\ NextItemIs("jo")
    /\ result' = Append(result,
           [number |-> chatbot_data[item + 1].number,
            title |-> combine_structure_titles(current_jang, current_jeol,
                          current_gwan, chatbot_data[item + 1].title),
            content |-> chatbot_data[item + 1].content])
    /\ item' = item + 1
    /\ UNCHANGED <<pc, chatbot_data, current_jang, current_jeol, current_gwan>>
    /\ OutsideWalk

\* line 800
ReturnStructure ==
    /\ pc = "Walking"
    /\ item = Len(chatbot_data)
    /\ pc' = "StructureBuilt"
    /\ UNCHANGED <<walk, result>>
    /\ OutsideWalk

NextStructure ==
    \/ ChapterItem
    \/ SectionItem
    \/ SubsectionItem
    \/ ArticleItem
    \/ ReturnStructure

MaxItems == 4

\* an item of chatbot_data
Item(number, title, content) ==
    [number |-> number, title |-> title, content |-> content]

\* contents 제1장 가, 제2장 나<개정>, ' 제1절 다', 제2절, 제1관 마; the article
\* 제1조 (바) with content 사, and the article 제2조 without title and content
Items ==
    { Item(<<>>, <<>>, <<"je", "1", "jang", " ", "ga">>),
      Item(<<>>, <<>>, <<"je", "2", "jang", " ", "na", "<", "gae", "jeong", ">">>),
      Item(<<>>, <<>>, <<" ", "je", "1", "jeol", " ", "da">>),
      Item(<<>>, <<>>, <<"je", "2", "jeol">>),
      Item(<<>>, <<>>, <<"je", "1", "gwan", " ", "ma">>),
      Item(<<"je", "1", "jo">>, <<"ba">>, <<"sa">>),
      Item(<<"je", "2", "jo">>, <<>>, <<>>) }

\* lines 761-765
InitStructure ==
    /\ chatbot_data \in UNION { [1..n -> Items] : n \in 0..MaxItems }
    /\ item = 0
    /\ current_jang = <<>>
    /\ current_jeol = <<>>
    /\ current_gwan = <<>>
    /\ pc = "Walking"
    /\ text = <<>>
    /\ NoParse
    /\ NoArguments

\* _build_structure_hierarchy_standalone on a list of at most MaxItems Items
SpecStructure == InitStructure /\ [][NextStructure]_vars


\* the type of item k of chatbot_data
TypeAt(k) == identify_structure_type(chatbot_data[k].content)

\* the last of the first n items that is of one of the types; 0 when none is
LastOf(types, n) == Last({ k \in 1..n : TypeAt(k) \in types })

\* the title of structural item k; no title for k = 0
TitleOfItem(k) ==
    IF k = 0 THEN <<>> ELSE extract_structure_title(chatbot_data[k].content)

\* the title of the last chapter item among the first n items
ChapterAfter(n) == TitleOfItem(LastOf({"jang"}, n))

\* the title of the last section item among the first n items, when no
\* chapter item follows it
SectionAfter(n) ==
    IF LastOf({"jeol"}, n) <= LastOf({"jang"}, n) THEN <<>>
    ELSE TitleOfItem(LastOf({"jeol"}, n))

\* the title of the last subsection item among the first n items, when no
\* chapter or section item follows it
SubsectionAfter(n) ==
    IF LastOf({"gwan"}, n) <= LastOf({"jang", "jeol"}, n) THEN <<>>
    ELSE TitleOfItem(LastOf({"gwan"}, n))

\* the record of article item n: the titles in force after the n - 1 items
\* before it, then its own title
EmittedFor(n) ==
    [number |-> chatbot_data[n].number,
     title |-> combine_structure_titles(ChapterAfter(n - 1), SectionAfter(n - 1),
                   SubsectionAfter(n - 1), chatbot_data[n].title),
     content |-> chatbot_data[n].content]

\* the records of the article items among the first n items, in their order
RECURSIVE Emitted(_)
Emitted(n) ==
    IF n = 0 THEN <<>>
    ELSE IF TypeAt(n) = "jo" THEN Append(Emitted(n - 1), EmittedFor(n))
    ELSE Emitted(n - 1)

\* C28: after any number of items the current chapter is the one of the last
\* chapter item, the current section the one of the last section item unless
\* a chapter item came after it, the current subsection the one of the last
\* subsection item unless a chapter or section item came after it; the
\* result holds the article items alone, in their order, with their number
\* and content, each title prefixed by the titles in force before the item.
C28_RunningState ==
    pc \in {"Walking", "StructureBuilt"} =>
        /\ current_jang = ChapterAfter(item)
        /\ current_jeol = SectionAfter(item)
        /\ current_gwan = SubsectionAfter(item)
        /\ result = Emitted(item)

\* a section, a subsection, a chapter and an article have been walked: the
\* article carries the chapter alone
C28_ChapterClearsSection ==
    /\ pc = "StructureBuilt"
    /\ Len(chatbot_data) = 4
    /\ TypeAt(1) = "jeol" /\ TypeAt(2) = "gwan" /\ TypeAt(3) = "jang"
    /\ TypeAt(4) = "jo"
    /\ chatbot_data[4].title # <<>>
    /\ Len(result) = 1
    /\ result[1].title = current_jang \o <<",", " ">> \o chatbot_data[4].title


-----------------------------------------------------------------------------
(* The chapter spans of SmartParser.parse                                   *)

\* offset p lies in the span of chapter k: from boundary k to boundary k + 1
\* of the list, or to the end of the text
InSpan(k, p) ==
    /\ chapter_boundaries[k].pos <= p
    /\ p < ChapterEnd(chapter_boundaries, k, processed_text)

\* C29: the spans of two chapters share no offset, and the result of parse
\* holds no more records than parse_articles_only returned.
C29_EachArticleOnce ==
    /\ pc = "HierarchySkeletonBuilt" =>
           \A j, k \in 1..Len(chapter_boundaries) :
               j # k => \A p \in 0..(Len(processed_text) - 1) :
                            ~(InSpan(j, p) /\ InSpan(k, p))
    /\ pc = "Done" => Len(result) <= Len(all_articles)


-----------------------------------------------------------------------------
(* The corroboration step of find_hierarchy_boundaries                      *)

\* the candidates that passed the reference and the sentence-title filter
Candidates == BoundaryCandidates(preprocess_text(text), hierarchy_type)

\* C30: a candidate that passed both filters is among the boundaries
\* find_hierarchy_boundaries returns exactly when its main number lies in
\* 1..999, also when its marker is the only one of the text.
C30_InRangeCandidatesKept ==
    pc = "BoundariesReturned" =>
        \A k \in 1..Len(Candidates) :
            (MinNumber <= MainOf(Candidates[k]) /\ MainOf(Candidates[k]) <= MaxNumber)
                <=> Among(Candidates[k], result)

\* the one candidate of a number in range is returned, its marker the only
\* one of its number, and another candidate is dropped
C30_KeptAndDropped ==
    /\ pc = "BoundariesReturned"
    /\ Len(result) = 1
    /\ Len(Candidates) > 1

=============================================================================
